---- MODULE Spec2Model ----
(***************************************************************************)
(* A model of go-stardict: the in-memory index (package idx and            *)
(* internal/index), the article parser (package dict), the .idx/.syn       *)
(* record scanners and the Stardict facade.                                *)
(*                                                                         *)
(* Strings are sequences of code points (integers); every code point of    *)
(* the bounded alphabets is ASCII, so byte order and code point order      *)
(* coincide.  Byte strings (.dict payloads, .idx/.syn streams) are         *)
(* sequences of integers 0..255.                                           *)
(***************************************************************************)
EXTENDS Integers, Sequences, FiniteSets, TLC

VARIABLES
    idxIn,      \* the records the idx Scanner yields, in file order
    synIn,      \* the records the syn Scanner yields, in file order
    folder,     \* Options.Folder of the Idx
    built,      \* "none" before NewWithSyn, then "ok" or "panic"
    index,      \* Idx.index.index: the sorted array of foldedWord
    query,      \* the argument of the last Search
    words,      \* the words the last Search returned
    err,        \* the error the last Search returned
    hits,       \* the index elements behind words (provenance of the result)
    nSearch,    \* the number of Search calls made
    dSts,       \* Dict.sametypesequence
    dBlocks,    \* the blocks a .dict payload was written from
    dPayload,   \* the bytes ReadAt returned for the index entry
    dOut,       \* the outcome of Dict.Word
    sKind,      \* the scanner: "idx32", "idx64" (idx.Scanner) or "syn"
    sRecs,      \* the records the stream was written from
    sTail,      \* the bytes of the stream after its last complete record
    sStream,    \* the bytes of the .idx or .syn stream
    sStart,     \* bufio.Scanner.start, as a position of the stream
    sEnd,       \* bufio.Scanner.end, as a position of the stream
    sEOF,       \* the reader has reported io.EOF
    sTokens,    \* the entries Word() returned after each successful Scan()
    sState,     \* "scan", "done" (Scan returned false) or "panic"
    sErr,       \* what Err() returns
    sdSts,      \* Stardict.sametypesequence
    sdOut,      \* the outcome of the last Stardict.Search
    fw,         \* the fields of the WhitespaceFolder in Idx.foldTransformer
    trace,      \* the query and error of every Search call made so far
    cPc,        \* each concurrent Search call: where it stands
    cQuery,     \* each concurrent Search call: its query
    cPos,       \* each concurrent Search call: nSrc of its Transform
    cDst,       \* each concurrent Search call: the output of its Transform
    cOut,       \* each concurrent Search call: what it returned
    fs,         \* the files of one dictionary: the .ifo, the .idx, the .dict
    sd,         \* the Stardict value Open returned, as its fields
    handles,    \* the open file handles, counted by the file they are on
    fErr,       \* the error the last call on the Stardict returned
    nOps,       \* the number of Index, Dict and Search calls made
    wEntries,   \* the entries filepath.WalkDir visits, in walk order
    wPos,       \* the number of entries the walk has visited
    wDicts,     \* OpenAll: dicts
    wErrs,      \* OpenAll: errs
    wTried,     \* the positions of the entries Open was called on
    wOut,       \* what OpenAll returned
    ifoIn,      \* the lines an .ifo stream was written from
    ifoStream,  \* the bytes of the .ifo stream
    ifoOut,     \* the outcome of ifo.New
    wdFile,     \* the bytes behind the reader of a Dict
    wdSts,      \* the sametypesequence of that Dict
    wdE,        \* the index entry Dict.Word is called with
    wdOut,      \* the outcome of that call and the reads it issued
    tIn,        \* the bytes a caller feeds through a WhitespaceFolder
    tPos,       \* the number of those bytes Transform has consumed
    tW,         \* the fields of that WhitespaceFolder
    tOut,       \* the bytes Transform has written, over all calls
    tLast,      \* the arguments and the error of the last Transform call
    tCalls,     \* the number of Transform calls made
    pIn,        \* a string given to the default folding pipeline
    pKey,       \* what the pipeline made of it
    pKeyBare,   \* what the pipeline made of it without its punctuation
    xIndex,     \* Index.index: an array sorted by key
    xQuery,     \* the argument of Index.Search
    xOut,       \* the slice Index.Search returned
    qIdx,       \* the array of an Idx built with the Nop folder
    qQuery,     \* the argument of Search on that Idx
    qPrefix,    \* the static prefix Search computed
    qRes,       \* what Search returned
    op          \* the last operation performed

idxVars == <<idxIn, synIn, folder, built, index, query, words, err, hits, nSearch>>
dictVars == <<dSts, dBlocks, dPayload, dOut>>
scanVars == <<sKind, sRecs, sTail, sStream, sStart, sEnd, sEOF, sTokens, sState,
              sErr>>
sdVars == <<sdSts, sdOut>>
foldVars == <<fw, trace>>
concVars == <<cPc, cQuery, cPos, cDst, cOut>>
facadeVars == <<fs, sd, handles, fErr, nOps>>
walkVars == <<wEntries, wPos, wDicts, wErrs, wTried, wOut>>
ifoVars == <<ifoIn, ifoStream, ifoOut>>
extVars == <<foldVars, concVars, facadeVars, walkVars, ifoVars>>
wordVars == <<wdFile, wdSts, wdE, wdOut>>
tfVars == <<tIn, tPos, tW, tOut, tLast, tCalls>>
punctVars == <<pIn, pKey, pKeyBare>>
indexVars == <<xIndex, xQuery, xOut>>
prefixVars == <<qIdx, qQuery, qPrefix, qRes>>
restVars == <<wordVars, tfVars, punctVars, indexVars, prefixVars>>
vars == <<idxVars, dictVars, scanVars, sdVars, extVars, restVars, op>>

(***************************************************************************)
(* Bounds and alphabets.  Code points used: 'a' 97, 'b' 98, 'A' 65,        *)
(* '*' 42, '?' 63, '[' 91, ']' 93, '\' 92, '{' 123, '}' 125.               *)
(***************************************************************************)
MaxIdx == 2
MaxSyn == 2
MaxQueryLen == 2
MaxSearches == 1
MaxBlocks == 2
MaxDataLen == 2
MaxScanRecs == 2
MaxSeqSearches == 3
MaxCalls == 2
MaxOps == 3
MaxEntries == 3
MaxIfoLines == 3
MaxPayload == 5
MaxPieces == 3
MaxDst == 2
MaxTransforms == 3
MaxFoldLen == 3
MaxKeys == 4
MaxPrefixLen == 3

\* The .idx records the inputs are drawn from: "a", "ab", "A", "b".  A
\* uint32 is kept as its two 16-bit halves and a uint64 as its four, most
\* significant first: the payloads are at offsets 0, 3, 9 and 10.
HeadPool ==
    { [Word |-> <<97>>,     Offset |-> <<0, 0, 0, 0>>,  Size |-> <<0, 3>>],
      [Word |-> <<97, 98>>, Offset |-> <<0, 0, 0, 3>>,  Size |-> <<0, 6>>],
      [Word |-> <<65>>,     Offset |-> <<0, 0, 0, 9>>,  Size |-> <<0, 2>>],
      [Word |-> <<98>>,     Offset |-> <<0, 0, 0, 10>>, Size |-> <<0, 5>>] }

\* The synonym words the inputs are drawn from: "b", "aB".
SynWordPool == { <<98>>, <<97, 66>> }

\* The code points queries are built from: a b A * [ ]
QueryAlphabet == {97, 98, 65, 42, 91, 93}

\* Longer queries tried besides every string of up to MaxQueryLen code points.
ExtraQueries ==
    { <<97, 91, 98, 93>>,          \* a[b]
      <<65, 91, 66, 93, 42>>,      \* A[B]*
      <<97, 42, 98>>,              \* a*b
      <<97, 91, 98>>,              \* a[b
      <<91, 97, 98>>,              \* [ab
      <<97, 91, 93>>,              \* a[]
      <<97, 63>> }                 \* a?

SeqsUpTo(S, n) == UNION { [1..k -> S] : k \in 0..n }

Queries == SeqsUpTo(QueryAlphabet, MaxQueryLen) \cup ExtraQueries

Folders == {"nop", "case"}

(***************************************************************************)
(* String helpers (strings.HasPrefix, strings.Compare).                    *)
(***************************************************************************)
Min(a, b) == IF a < b THEN a ELSE b

HasPrefix(s, p) ==
    /\ Len(p) <= Len(s)
    /\ \A i \in 1..Len(p) : s[i] = p[i]

\* strings.Compare: lexicographic comparison of the bytes.
Compare(a, b) ==
    LET n == Min(Len(a), Len(b))
        D == { i \in 1..n : a[i] # b[i] }
    IN  IF D = {}
        THEN IF Len(a) < Len(b) THEN -1 ELSE IF Len(a) > Len(b) THEN 1 ELSE 0
        ELSE LET d == CHOOSE i \in D : \A j \in D : i <= j
             IN  IF a[d] < b[d] THEN -1 ELSE 1

\* prefixCmp of idx.go: equal when b starts with a, else byte comparison.
prefixCmp(a, b) == IF HasPrefix(b, a) THEN 0 ELSE Compare(a, b)

(***************************************************************************)
(* folding.WhitespaceFolder: a transformer with two fields.  Transform     *)
(* drops leading and trailing white space and turns every inner span of    *)
(* white space into one ASCII space.  wsRune and Transform below work on   *)
(* the runes of a short valid string with a destination buffer that is     *)
(* large enough, as transform.String provides for a word or a query;       *)
(* wsLoop further down is the same loop on bytes, with the source chunks,  *)
(* the destination sizes and atEOF of any caller.                          *)
(***************************************************************************)
IsSpace(c) ==
    \/ c \in {9, 10, 11, 12, 13, 32, 133, 160}
    \/ c \in {5760, 8232, 8233, 8239, 8287, 12288}
    \/ (8192 <= c /\ c <= 8202)

\* Reset: *w = WhitespaceFolder{}
WsReset == [notStart |-> FALSE, wsSpan |-> FALSE]

\* one iteration of the loop of Transform, on the rune c
wsRune(w, c) ==
    IF IsSpace(c)
    THEN [w   |-> IF w.notStart THEN [w EXCEPT !.wsSpan = TRUE] ELSE w,
          out |-> <<>>]
    ELSE [w   |-> [notStart |-> TRUE, wsSpan |-> FALSE],
          out |-> IF w.wsSpan THEN <<32, c>> ELSE <<c>>]

RECURSIVE Transform(_, _, _, _)
Transform(w, src, nSrc, dst) ==
    IF nSrc > Len(src) THEN [w |-> w, out |-> dst]
    ELSE LET r == wsRune(w, src[nSrc])
         IN  Transform(r.w, src, nSrc + 1, dst \o r.out)

(***************************************************************************)
(* WhitespaceFolder.Transform(dst, src, atEOF) on bytes.  utf8.DecodeRune  *)
(* and utf8.EncodeRune are given for encodings of up to three bytes; a     *)
(* byte that starts no such encoding decodes to utf8.RuneError, U+FFFD,    *)
(* one byte wide.                                                          *)
(***************************************************************************)
\* utf8.DecodeRune(b[k-1:]) for 1 <= k <= Len(b): the rune and its width
DecodeRune(b, k) ==
    LET b0 == b[k]
        lo == IF b0 = 224 THEN 160 ELSE 128
        hi == IF b0 = 237 THEN 159 ELSE 191
    IN  IF b0 < 128 THEN [c |-> b0, size |-> 1]
        ELSE IF /\ 194 <= b0 /\ b0 <= 223 /\ k + 1 <= Len(b)
                /\ 128 <= b[k + 1] /\ b[k + 1] <= 191
        THEN [c |-> (b0 - 192) * 64 + (b[k + 1] - 128), size |-> 2]
        ELSE IF /\ 224 <= b0 /\ b0 <= 239 /\ k + 2 <= Len(b)
                /\ lo <= b[k + 1] /\ b[k + 1] <= hi
                /\ 128 <= b[k + 2] /\ b[k + 2] <= 191
        THEN [c |-> (b0 - 224) * 4096 + (b[k + 1] - 128) * 64 + (b[k + 2] - 128),
              size |-> 3]
        ELSE [c |-> 65533, size |-> 1]

\* utf8.EncodeRune of a rune below U+10000; its length is utf8.RuneLen
EncodeRune(c) ==
    IF c < 128 THEN <<c>>
    ELSE IF c < 2048 THEN <<192 + (c \div 64), 128 + (c % 64)>>
    ELSE <<224 + (c \div 4096), 128 + ((c \div 64) % 64), 128 + (c % 64)>>

\* a folder that opens a span on leading white space as well
wsSpaceAnywhere(w) == [w EXCEPT !.wsSpan = TRUE]

\* the white space branch: ignored before the first other rune, else the
\* folder is in a span
wsSpace(w) == IF w.notStart THEN [w EXCEPT !.wsSpan = TRUE] ELSE w

\* the loop of Transform from nSrc on, with the bytes written so far in out
\* and a dst of cap bytes: the fields as the call leaves them, dst[:nDst],
\* nSrc and the error
RECURSIVE wsLoop(_, _, _, _, _, _)
wsLoop(w, cap, src, atEOF, nSrc, out) ==
    IF nSrc >= Len(src)
    THEN [w |-> w, out |-> out, nSrc |-> nSrc, err |-> "nil"]
    ELSE LET d == DecodeRune(src, nSrc + 1) IN
         IF d.c = 65533 /\ ~atEOF
         THEN [w |-> w, out |-> out, nSrc |-> nSrc, err |-> "ErrShortSrc"]
         ELSE IF IsSpace(d.c)
         THEN wsLoop(wsSpace(w), cap, src, atEOF, nSrc + d.size, out)
         ELSE IF w.wsSpan /\ Len(out) + 1 > cap
         THEN [w |-> w, out |-> out, nSrc |-> nSrc, err |-> "ErrShortDst"]
         ELSE LET out1 == IF w.wsSpan THEN Append(out, 32) ELSE out
                  w1   == [notStart |-> TRUE, wsSpan |-> FALSE]
              IN  IF Len(out1) + Len(EncodeRune(d.c)) > cap
                  THEN [w |-> w1, out |-> out1, nSrc |-> nSrc + d.size,
                        err |-> "ErrShortDst"]
                  ELSE wsLoop(w1, cap, src, atEOF, nSrc + d.size,
                              out1 \o EncodeRune(d.c))

\* w.Transform(dst, src, atEOF) with len(dst) = cap
WsTransform(w, cap, src, atEOF) == wsLoop(w, cap, src, atEOF, 0, <<>>)

(***************************************************************************)
(* Folding: transform.String(t, s) on the transformer t, a record of its   *)
(* kind and, for a WhitespaceFolder, its fields.  "nop" is transform.Nop   *)
(* (DefaultOptions.Folder), "case" a case folder mapping 'A'..'Z' to       *)
(* 'a'..'z', "ws" a *folding.WhitespaceFolder.  String calls t.Reset() and *)
(* then Transform to the end of s; it yields the transformer as the call   *)
(* leaves it and the result.                                               *)
(***************************************************************************)
\* a String that transforms without resetting the transformer first
TransformStringNoReset(t, s) ==
    IF t.kind = "ws"
    THEN LET r == Transform(t.w, s, 1, <<>>)
         IN  [t |-> [t EXCEPT !.w = r.w], out |-> r.out]
    ELSE IF t.kind = "case"
    THEN [t   |-> t,
          out |-> [i \in 1..Len(s) |->
                     IF s[i] \in 65..90 THEN s[i] + 32 ELSE s[i]]]
    ELSE [t |-> t, out |-> s]

TransformString(t, s) ==
    IF t.kind = "ws"
    THEN LET r == Transform(WsReset, s, 1, <<>>)
         IN  [t |-> [t EXCEPT !.w = r.w], out |-> r.out]
    ELSE IF t.kind = "case"
    THEN [t   |-> t,
          out |-> [i \in 1..Len(s) |->
                     IF s[i] \in 65..90 THEN s[i] + 32 ELSE s[i]]]
    ELSE [t |-> t, out |-> s]

\* the transformer Options.Folder names, as constructed
Folder(f) == [kind |-> f, w |-> WsReset]

\* transform.String on a transformer nothing else has used
Fold(f, s) == TransformString(Folder(f), s).out

(***************************************************************************)
(* syntax.Special of gobwas/glob, applied to one byte.                     *)
(***************************************************************************)
Special(c) == c \in {42, 63, 92, 91, 93, 123, 125}

\* foldGlob indexes the query by byte: a byte of a multi-byte code point is
\* at least 0x80 and never special.
SpecialByteOf(r) == r < 128 /\ Special(r)

(***************************************************************************)
(* Idx.foldGlob: the query is cut into maximal runs of special and of      *)
(* non-special bytes; s collects the pieces (joined with ""), b is the     *)
(* strings.Builder holding the current run.                                *)
(***************************************************************************)
RECURSIVE foldGlobLoop(_, _, _, _, _, _)
foldGlobLoop(t, q, i, s, b, isSpecial) ==
    IF i > Len(q)
    THEN \* after the loop: the last run is folded unless it is special
         LET w == IF ~isSpecial THEN TransformString(t, b)
                  ELSE [t |-> t, out |-> b]
         IN  [t |-> w.t, out |-> IF Len(b) > 0 THEN s \o w.out ELSE s]
    ELSE LET c == q[i] IN
         IF SpecialByteOf(c)
         THEN IF ~isSpecial
              THEN IF Len(b) > 0
                   THEN LET w == TransformString(t, b)
                        IN  foldGlobLoop(w.t, q, i + 1, s \o w.out, <<c>>, TRUE)
                   ELSE foldGlobLoop(t, q, i + 1, s, <<c>>, TRUE)
              ELSE foldGlobLoop(t, q, i + 1, s, Append(b, c), isSpecial)
         ELSE IF isSpecial
              THEN foldGlobLoop(t, q, i + 1,
                                IF Len(b) > 0 THEN s \o b ELSE s,
                                <<c>>, FALSE)
              ELSE foldGlobLoop(t, q, i + 1, s, Append(b, c), isSpecial)

\* foldGlob on the transformer t: the transformer afterwards and the result
foldGlobOn(t, q) == foldGlobLoop(t, q, 1, <<>>, <<>>, FALSE)

foldGlob(f, q) == foldGlobOn(Folder(f), q).out

(***************************************************************************)
(* The static prefix loop of Idx.Search: the code points of the folded     *)
(* query up to the first one whose low byte, byte(r), is special.          *)
(***************************************************************************)
StaticPrefix(fq) ==
    LET S == { i \in 1..Len(fq) : Special(fq[i] % 256) }
    IN  IF S = {} THEN fq
        ELSE SubSeq(fq, 1, (CHOOSE i \in S : \A j \in S : i <= j) - 1)

(***************************************************************************)
(* index.NewIndex: slices.SortFunc on a copy.  For at most 12 elements     *)
(* slices.SortFunc is insertionSortCmpFunc:                                *)
(*   for i := a+1; i < b; i++ {                                            *)
(*     for j := i; j > a && cmp(data[j], data[j-1]) < 0; j-- { swap }      *)
(*   }                                                                     *)
(* The comparison function the Idx passes is prefixCmp on the folded keys. *)
(***************************************************************************)
IndexCmp(a, b) == prefixCmp(a, b)

Swap(data, i, j) == [data EXCEPT ![i] = data[j], ![j] = data[i]]

RECURSIVE insertInner(_, _)
insertInner(data, j) ==
    IF j > 1 /\ IndexCmp(data[j].folded, data[j - 1].folded) < 0
    THEN insertInner(Swap(data, j, j - 1), j - 1)
    ELSE data

RECURSIVE insertOuter(_, _)
insertOuter(data, i) ==
    IF i > Len(data) THEN data
    ELSE insertOuter(insertInner(data, i), i + 1)

NewIndex(ws) == insertOuter(ws, 2)

(***************************************************************************)
(* Index.Search: sort.Find, then the run of elements comparing equal.      *)
(* Positions are 0-based as in the code; element i is ix[i + 1].           *)
(***************************************************************************)
RECURSIVE Find(_, _, _, _)
Find(ix, q, i, j) ==
    IF i < j
    THEN LET h == (i + j) \div 2 IN
         IF prefixCmp(q, ix[h + 1].folded) > 0
         THEN Find(ix, q, h + 1, j)
         ELSE Find(ix, q, i, h)
    ELSE i

\* a Search that returns the first match alone
ExpandOne(ix, q, j) == j + 1

RECURSIVE Expand(_, _, _)
Expand(ix, q, j) ==
    IF j < Len(ix) /\ prefixCmp(q, ix[j + 1].folded) = 0
    THEN Expand(ix, q, j + 1)
    ELSE j

IndexSearch(ix, q) ==
    LET i     == Find(ix, q, 0, Len(ix))
        found == i < Len(ix) /\ prefixCmp(q, ix[i + 1].folded) = 0
    IN  IF ~found THEN <<>>
        ELSE SubSeq(ix, i + 1, Expand(ix, q, i))

(***************************************************************************)
(* glob.Compile and Glob.Match of gobwas/glob, with no separators, for     *)
(* patterns over literals, '*', '?', '[' and ']' (the code points of the   *)
(* bounded queries).  The lexer turns '*' and '**' into Any/Super (the     *)
(* same matcher without separators), '?' into Single, '[' chars ']' into a *)
(* List, and every other run, ']' included, into Text.  A '[' with no      *)
(* closing ']' is a lexer error ("unexpected end of input") and "[]" a     *)
(* parser error ("could not parse range").                                 *)
(***************************************************************************)
\* inTextBreakers of the lexer: ? * [ {
TextBreakers == {63, 42, 91, 123}

\* The first position >= i of p holding a code point of stopSet, or
\* Len(p) + 1.
RECURSIVE ScanTo(_, _, _)
ScanTo(p, i, stopSet) ==
    IF i > Len(p) \/ p[i] \in stopSet THEN i ELSE ScanTo(p, i + 1, stopSet)

RECURSIVE lexGlob(_, _, _)
lexGlob(p, i, toks) ==
    IF i > Len(p) THEN [ok |-> TRUE, toks |-> toks]
    ELSE IF p[i] = 91
    THEN LET j == ScanTo(p, i + 1, {93}) IN
         IF j > Len(p) \/ j = i + 1
         THEN [ok |-> FALSE, toks |-> <<>>]
         ELSE lexGlob(p, j + 1,
                      Append(toks, [k |-> "list", s |-> SubSeq(p, i + 1, j - 1)]))
    ELSE IF p[i] = 63
    THEN lexGlob(p, i + 1, Append(toks, [k |-> "single", s |-> <<>>]))
    ELSE IF p[i] = 42
    THEN IF i < Len(p) /\ p[i + 1] = 42
         THEN lexGlob(p, i + 2, Append(toks, [k |-> "any", s |-> <<>>]))
         ELSE lexGlob(p, i + 1, Append(toks, [k |-> "any", s |-> <<>>]))
    ELSE LET j == ScanTo(p, i + 1, TextBreakers) IN
         lexGlob(p, j, Append(toks, [k |-> "text", s |-> SubSeq(p, i, j - 1)]))

GlobCompile(p) == lexGlob(p, 1, <<>>)

RECURSIVE matchFrom(_, _, _, _)
matchFrom(toks, t, s, k) ==
    IF t > Len(toks) THEN k = Len(s) + 1
    ELSE LET tok == toks[t] IN
         CASE tok.k = "text" ->
                /\ k + Len(tok.s) - 1 <= Len(s)
                /\ SubSeq(s, k, k + Len(tok.s) - 1) = tok.s
                /\ matchFrom(toks, t + 1, s, k + Len(tok.s))
           [] tok.k = "single" ->
                /\ k <= Len(s)
                /\ matchFrom(toks, t + 1, s, k + 1)
           [] tok.k = "list" ->
                /\ k <= Len(s)
                /\ \E m \in 1..Len(tok.s) : tok.s[m] = s[k]
                /\ matchFrom(toks, t + 1, s, k + 1)
           [] OTHER ->
                \E k2 \in k..(Len(s) + 1) : matchFrom(toks, t + 1, s, k2)

GlobMatch(toks, s) == matchFrom(toks, 1, s, 1)

(***************************************************************************)
(* NewWithSyn: fold and append every .idx record, then every synonym with  *)
(* the word of words[OriginalWordIndex], then build the index.  An         *)
(* OriginalWordIndex that is not a position of the words read so far is an *)
(* index-out-of-range panic.  The field from records where an element      *)
(* came from; no operation of the program reads it.                        *)
(***************************************************************************)
IdxWords(f, recs) ==
    [i \in 1..Len(recs) |->
        [folded |-> Fold(f, recs[i].Word), word |-> recs[i],
         from |-> [kind |-> "idx", pos |-> i - 1]]]

\* a merge that ignores OriginalWordIndex and takes the first record
SynTargetFirst(ws, j) == ws[1].word

\* words[word.OriginalWordIndex].word, OriginalWordIndex being 0-based
SynTarget(ws, j) == ws[j + 1].word

RECURSIVE mergeSyn(_, _, _, _)
mergeSyn(f, syns, k, ws) ==
    IF k > Len(syns) THEN [status |-> "ok", words |-> ws]
    ELSE IF syns[k].OriginalWordIndex >= Len(ws)
    THEN [status |-> "panic", words |-> <<>>]
    ELSE mergeSyn(f, syns, k + 1,
                  Append(ws, [folded |-> Fold(f, syns[k].Word),
                              word |-> SynTarget(ws, syns[k].OriginalWordIndex),
                              from |-> [kind |-> "syn", pos |-> k - 1]]))

NewWithSynResult(f, recs, syns) ==
    LET m == mergeSyn(f, syns, 1, IdxWords(f, recs))
    IN  IF m.status = "ok"
        THEN [status |-> "ok", index |-> NewIndex(m.words)]
        ELSE [status |-> "panic", index |-> <<>>]

(***************************************************************************)
(* Idx.Search.                                                             *)
(***************************************************************************)
\* a Search that returns the whole candidate range
FilterHitsAll(toks, result) == result

\* the loop over result: keep the elements whose folded key the glob matches
FilterHits(toks, result) ==
    SelectSeq(result, LAMBDA w : GlobMatch(toks, w.folded))

\* a Search that returns the folded key as the headword
ResultWordFolded(w) == [w.word EXCEPT !.Word = w.folded]

\* words = append(words, w.word)
ResultWord(w) == w.word

\* Idx.Search once foldGlob has returned foldedQuery
SearchFolded(ix, foldedQuery) ==
    LET g == GlobCompile(foldedQuery)
    IN  IF ~g.ok THEN [err |-> "ErrGlob", hits |-> <<>>]
        ELSE LET prefix == StaticPrefix(foldedQuery) IN
             IF prefix = <<>> THEN [err |-> "ErrPrefix", hits |-> <<>>]
             ELSE [err |-> "nil",
                   hits |-> FilterHits(g.toks, IndexSearch(ix, prefix))]

\* Idx.Search on an Idx whose foldTransformer is t: the transformer as the
\* call leaves it, and what the call returns
SearchOn(ix, t, q) ==
    LET fg == foldGlobOn(t, q)
    IN  [t |-> fg.t, res |-> SearchFolded(ix, fg.out)]

\* a Search that looks at the static prefix before compiling the glob
SearchResultPrefixFirst(ix, f, q) ==
    LET fq == foldGlob(f, q)
        g  == GlobCompile(fq)
    IN  IF StaticPrefix(fq) = <<>> THEN [err |-> "ErrPrefix", hits |-> <<>>]
        ELSE IF ~g.ok THEN [err |-> "ErrGlob", hits |-> <<>>]
        ELSE [err |-> "nil",
              hits |-> FilterHits(g.toks, IndexSearch(ix, StaticPrefix(fq)))]

SearchResult(ix, f, q) == SearchOn(ix, Folder(f), q).res

WordsOf(hs) == [i \in 1..Len(hs) |-> ResultWord(hs[i])]

(***************************************************************************)
(* The Idx as a state machine: NewWithSyn once, then any Searches.         *)
(***************************************************************************)
SynRecs == [Word : SynWordPool, OriginalWordIndex : 0..MaxIdx]

IdxInit ==
    /\ idxIn = <<>>
    /\ synIn = <<>>
    /\ folder = "nop"
    /\ built = "none"
    /\ index = <<>>
    /\ query = <<>>
    /\ words = <<>>
    /\ err = "nil"
    /\ hits = <<>>
    /\ nSearch = 0

DictInit ==
    /\ dSts = <<>>
    /\ dBlocks = <<>>
    /\ dPayload = <<>>
    /\ dOut = [status |-> "none", data |-> <<>>]

ScanInit ==
    /\ sKind = "idx32"
    /\ sRecs = <<>>
    /\ sTail = <<>>
    /\ sStream = <<>>
    /\ sStart = 0
    /\ sEnd = 0
    /\ sEOF = FALSE
    /\ sTokens = <<>>
    /\ sState = "none"
    /\ sErr = "nil"

SDInit ==
    /\ sdSts = <<>>
    /\ sdOut = [status |-> "none", entries |-> <<>>]

FoldInit ==
    /\ fw = WsReset
    /\ trace = <<>>

ConcInit ==
    /\ cPc = <<>>
    /\ cQuery = <<>>
    /\ cPos = <<>>
    /\ cDst = <<>>
    /\ cOut = <<>>

FacadeInit ==
    /\ fs = [ext |-> ".ifo", ifoFile |-> "missing", ifo |-> <<>>,
             idx |-> "missing", dict |-> "missing"]
    /\ sd = [state |-> "none"]
    /\ handles = [ifo |-> 0, idx |-> 0, dict |-> 0]
    /\ fErr = "nil"
    /\ nOps = 0

WalkInit ==
    /\ wEntries = <<>>
    /\ wPos = 0
    /\ wDicts = <<>>
    /\ wErrs = <<>>
    /\ wTried = {}
    /\ wOut = [status |-> "none"]

IfoInit ==
    /\ ifoIn = <<>>
    /\ ifoStream = <<>>
    /\ ifoOut = [status |-> "none"]

ExtInit == FoldInit /\ ConcInit /\ FacadeInit /\ WalkInit /\ IfoInit

WordInit ==
    /\ wdFile = <<>>
    /\ wdSts = <<>>
    /\ wdE = [Word |-> <<>>, Offset |-> <<0, 0, 0, 0>>, Size |-> <<0, 0>>]
    /\ wdOut = [status |-> "none", data |-> <<>>, reads |-> <<>>]

TfInit ==
    /\ tIn = <<>>
    /\ tPos = 0
    /\ tW = WsReset
    /\ tOut = <<>>
    /\ tLast = [err |-> "none", atEOF |-> FALSE, cap |-> 0, whole |-> FALSE]
    /\ tCalls = 0

PunctInit ==
    /\ pIn = <<>>
    /\ pKey = <<>>
    /\ pKeyBare = <<>>

IndexInit ==
    /\ xIndex = <<>>
    /\ xQuery = <<>>
    /\ xOut = <<>>

PrefixInit ==
    /\ qIdx = <<>>
    /\ qQuery = <<>>
    /\ qPrefix = <<>>
    /\ qRes = [err |-> "none", hits |-> <<>>]

RestInit == WordInit /\ TfInit /\ PunctInit /\ IndexInit /\ PrefixInit

Init ==
    /\ IdxInit
    /\ DictInit
    /\ ScanInit
    /\ SDInit
    /\ ExtInit
    /\ RestInit
    /\ op = "init"

NewWithSyn ==
    /\ built = "none"
    /\ \E recs \in SeqsUpTo(HeadPool, MaxIdx), syns \in SeqsUpTo(SynRecs, MaxSyn),
          f \in Folders :
          LET r == NewWithSynResult(f, recs, syns) IN
          /\ idxIn' = recs
          /\ synIn' = syns
          /\ folder' = f
          /\ built' = r.status
          /\ index' = r.index
    /\ op' = "NewWithSyn"
    /\ UNCHANGED <<query, words, err, hits, nSearch>>
    /\ UNCHANGED <<dictVars, scanVars, sdVars>>
    /\ UNCHANGED extVars
    /\ UNCHANGED restVars

Search ==
    /\ built = "ok"
    /\ nSearch < MaxSearches
    /\ nSearch' = nSearch + 1
    /\ \E q \in Queries :
          LET r == SearchResult(index, folder, q) IN
          /\ query' = q
          /\ err' = r.err
          /\ hits' = r.hits
          /\ words' = WordsOf(r.hits)
    /\ op' = "Search"
    /\ UNCHANGED <<idxIn, synIn, folder, built, index>>
    /\ UNCHANGED <<dictVars, scanVars, sdVars>>
    /\ UNCHANGED extVars
    /\ UNCHANGED restVars

Next == NewWithSyn \/ Search

Spec == Init /\ [][Next]_vars

(***************************************************************************)
(* Dict.Word: the article parser.  A payload is a sequence of bytes; a     *)
(* block is [Type, Data].  Slicing past the end of the buffer and reading  *)
(* a Uint32 from fewer than 4 bytes are run-time panics of the Go code.    *)
(* The buffer is make([]byte, Size) and only ever re-sliced from its       *)
(* front, so its capacity equals its length.                               *)
(***************************************************************************)
\* 'a' <= t && t <= 'z'
StringLike(t) == 97 <= t /\ t <= 122

\* bytes.IndexByte(b, 0), 0-based, -1 when there is none
IndexByte0(b) ==
    LET Z == { i \in 1..Len(b) : b[i] = 0 }
    IN  IF Z = {} THEN -1 ELSE (CHOOSE i \in Z : \A j \in Z : i <= j) - 1

\* b[i:] for 0 <= i <= len(b)
From(b, i) == SubSeq(b, i + 1, Len(b))

\* binary.BigEndian.Uint32(b), as its two 16-bit halves
Uint32(b) == [hi |-> b[1] * 256 + b[2], lo |-> b[3] * 256 + b[4]]

\* 4 + size in uint32 arithmetic, as its two 16-bit halves
Plus4(u) ==
    [hi |-> (u.hi + (u.lo + 4) \div 65536) % 65536, lo |-> (u.lo + 4) % 65536]

\* the file-like branch:
\*   size := binary.BigEndian.Uint32(b); data = b[4 : 4+size]; b = b[4+size:]
FileBlock(b) ==
    IF Len(b) < 4 THEN [status |-> "panic", data |-> <<>>, rest |-> <<>>]
    ELSE LET e == Plus4(Uint32(b)) IN
         IF e.hi # 0 \/ e.lo > Len(b) \/ e.lo < 4
         THEN [status |-> "panic", data |-> <<>>, rest |-> <<>>]
         ELSE [status |-> "ok", data |-> SubSeq(b, 5, e.lo), rest |-> From(b, e.lo)]

\* the string-like branch when sametypesequence is set:
\*   i := IndexByte(b, 0); if i >= 0 { i++ } else { i = len(b) }
\*   data = b[:i]; b = b[i:]
SeqStringBlock(b) ==
    LET z == IndexByte0(b)
        i == IF z >= 0 THEN z + 1 ELSE Len(b)
    IN  [status |-> "ok", data |-> SubSeq(b, 1, i), rest |-> From(b, i)]

\* a parser that does not skip the terminator
InlineStringBlockNoSkip(b) ==
    LET z == IndexByte0(b)
        i == IF z < 0 THEN Len(b) ELSE z
    IN  [status |-> "ok", data |-> SubSeq(b, 1, i), rest |-> From(b, i)]

\* the string-like branch with inline tags:
\*   i := IndexByte(b, 0); if i < 0 { i = len(b) }
\*   data = b[:i]; b = b[i+1:]
InlineStringBlock(b) ==
    LET z == IndexByte0(b)
        i == IF z < 0 THEN Len(b) ELSE z
    IN  IF i + 1 > Len(b)
        THEN [status |-> "panic", data |-> <<>>, rest |-> <<>>]
        ELSE [status |-> "ok", data |-> SubSeq(b, 1, i), rest |-> From(b, i + 1)]

\* for _, t := range d.sametypesequence { ... }
RECURSIVE parseSeq(_, _, _, _)
parseSeq(sts, k, b, acc) ==
    IF k > Len(sts) THEN [status |-> "ok", data |-> acc]
    ELSE LET r == IF StringLike(sts[k]) THEN SeqStringBlock(b) ELSE FileBlock(b)
         IN  IF r.status # "ok" THEN [status |-> "panic", data |-> <<>>]
             ELSE parseSeq(sts, k + 1, r.rest,
                           Append(acc, [Type |-> sts[k], Data |-> r.data]))

\* for len(b) > 0 { t := DataType(b[0]); b = b[1:]; ... }
RECURSIVE parseInline(_, _)
parseInline(b, acc) ==
    IF Len(b) = 0 THEN [status |-> "ok", data |-> acc]
    ELSE LET t == b[1]
             r == IF StringLike(t) THEN InlineStringBlock(From(b, 1))
                  ELSE FileBlock(From(b, 1))
         IN  IF r.status # "ok" THEN [status |-> "panic", data |-> <<>>]
             ELSE parseInline(r.rest, Append(acc, [Type |-> t, Data |-> r.data]))

\* the parsing half of Dict.Word
ParseWord(sts, b) ==
    IF Len(sts) > 0 THEN parseSeq(sts, 1, b, <<>>) ELSE parseInline(b, <<>>)

(***************************************************************************)
(* Writing payloads.                                                       *)
(***************************************************************************)
\* binary.BigEndian.PutUint32 of a length below 65536
PutUint32(n) == <<0, 0, n \div 256, n % 256>>

\* testutil.MakeDict with an empty sameTypeSequence, for one word
RECURSIVE MakeDictInline(_, _)
MakeDictInline(blocks, k) ==
    IF k > Len(blocks) THEN <<>>
    ELSE LET d == blocks[k] IN
         (IF StringLike(d.Type)
          THEN <<d.Type>> \o d.Data \o <<0>>
          ELSE <<d.Type>> \o PutUint32(Len(d.Data)) \o d.Data)
             \o MakeDictInline(blocks, k + 1)

\* The payload of a word under a declared sametypesequence: no tag bytes,
\* every string-like block followed by a NUL, which the last block carries
\* only when lastNul is set.
RECURSIVE WriteSeq(_, _, _)
WriteSeq(blocks, k, lastNul) ==
    IF k > Len(blocks) THEN <<>>
    ELSE LET d == blocks[k] IN
         (IF StringLike(d.Type)
          THEN d.Data \o (IF k < Len(blocks) \/ lastNul THEN <<0>> ELSE <<>>)
          ELSE PutUint32(Len(d.Data)) \o d.Data)
             \o WriteSeq(blocks, k + 1, lastNul)

\* The blocks payloads are written from: 'm' and 't' are string-like tags
\* whose data holds no NUL, 'W' is a file-like tag whose data may.
BlockPool ==
    [Type : {109, 116}, Data : SeqsUpTo({104, 105}, MaxDataLen)]
        \cup [Type : {87}, Data : SeqsUpTo({0, 104}, MaxDataLen)]

\* Dict.Word on the payload of the blocks written with inline tags
WordInline ==
    /\ op = "init"
    /\ LET b == MakeDictInline(dBlocks, 1) IN
          /\ dSts' = <<>>
          /\ dPayload' = b
          /\ dOut' = ParseWord(<<>>, b)
    /\ op' = "WordInline"
    /\ UNCHANGED <<idxVars, scanVars, sdVars, dBlocks>>
    /\ UNCHANGED extVars
    /\ UNCHANGED restVars

\* Dict.Word on the payload of the blocks written under their own type
\* sequence
WordSeq ==
    /\ op = "init"
    /\ dBlocks # <<>>
    /\ \E lastNul \in BOOLEAN :
          LET sts == [k \in 1..Len(dBlocks) |-> dBlocks[k].Type]
              b   == WriteSeq(dBlocks, 1, lastNul)
          IN  /\ dSts' = sts
              /\ dPayload' = b
              /\ dOut' = ParseWord(sts, b)
    /\ op' = "WordSeq"
    /\ UNCHANGED <<idxVars, scanVars, sdVars, dBlocks>>
    /\ UNCHANGED extVars
    /\ UNCHANGED restVars

\* the inputs of Dict.Word: any blocks of the pool
InitDict ==
    /\ IdxInit
    /\ ScanInit
    /\ SDInit
    /\ ExtInit
    /\ RestInit
    /\ dSts = <<>>
    /\ dBlocks \in SeqsUpTo(BlockPool, MaxBlocks)
    /\ dPayload = <<>>
    /\ dOut = [status |-> "none", data |-> <<>>]
    /\ op = "init"

NextDict == WordInline \/ WordSeq

SpecDict == InitDict /\ [][NextDict]_vars

(***************************************************************************)
(* The .idx and .syn scanners: a bufio.Scanner with the split function     *)
(* splitIndex, and Word() on the token of each successful Scan().  A       *)
(* uint32 is kept as its two 16-bit halves and a uint64 as its four, most  *)
(* significant first.                                                      *)
(***************************************************************************)
\* the bytes of a record after the NUL: idxoffsetbits/8 + 4, or 4 in a .syn
Trailer(kind) == IF kind = "idx64" THEN 12 ELSE IF kind = "idx32" THEN 8 ELSE 4

\* a split function that frames every record with a 32-bit offset
splitIndexNarrow(kind, data, atEOF) ==
    IF atEOF /\ Len(data) = 0 THEN <<>>
    ELSE LET i         == IndexByte0(data)
             tokenSize == i + 1 + Trailer(IF kind = "idx64" THEN "idx32" ELSE kind)
         IN  IF i >= 0 /\ Len(data) >= tokenSize THEN SubSeq(data, 1, tokenSize)
             ELSE IF atEOF THEN data
             ELSE <<>>

\* splitIndex(data, atEOF): the token, or <<>> for a nil token
splitIndex(kind, data, atEOF) ==
    IF atEOF /\ Len(data) = 0 THEN <<>>
    ELSE LET i         == IndexByte0(data)
             tokenSize == i + 1 + Trailer(kind)
         IN  IF i >= 0 /\ Len(data) >= tokenSize THEN SubSeq(data, 1, tokenSize)
             ELSE IF atEOF THEN data
             ELSE <<>>

Half(b, k) == b[k] * 256 + b[k + 1]

\* Scanner.Word of idx and of syn on the token b
ScanWord(kind, b) ==
    LET i == IndexByte0(b)
        t == From(b, i + 1)
    IN  IF i < 0
        THEN [status |-> "ok",
              word |-> IF kind = "syn"
                       THEN [Word |-> <<>>, OriginalWordIndex |-> <<0, 0>>]
                       ELSE [Word |-> <<>>, Offset |-> <<0, 0, 0, 0>>,
                             Size |-> <<0, 0>>]]
        ELSE IF Len(t) < Trailer(kind)
        THEN [status |-> "panic", word |-> <<>>]
        ELSE [status |-> "ok",
              word |->
                IF kind = "syn"
                THEN [Word |-> SubSeq(b, 1, i),
                      OriginalWordIndex |-> <<Half(t, 1), Half(t, 3)>>]
                ELSE IF kind = "idx64"
                THEN [Word |-> SubSeq(b, 1, i),
                      Offset |-> <<Half(t, 1), Half(t, 3), Half(t, 5), Half(t, 7)>>,
                      Size |-> <<Half(t, 9), Half(t, 11)>>]
                ELSE [Word |-> SubSeq(b, 1, i),
                      Offset |-> <<0, 0, Half(t, 1), Half(t, 3)>>,
                      Size |-> <<Half(t, 5), Half(t, 7)>>]]

\* the data the split function is given: buf[start:end]
Buffered == SubSeq(sStream, sStart + 1, sEnd)

\* Scan() finds a token in the buffer and returns true; the caller takes
\* Word()
ScanToken ==
    /\ sState = "scan"
    /\ sEnd > sStart \/ sEOF
    /\ LET token == splitIndex(sKind, Buffered, sEOF) IN
          /\ token # <<>>
          /\ sStart' = sStart + Len(token)
          /\ LET w == ScanWord(sKind, token) IN
                IF w.status = "ok"
                THEN sTokens' = Append(sTokens, w.word) /\ sState' = sState
                ELSE sTokens' = sTokens /\ sState' = "panic"
    /\ op' = "ScanToken"
    /\ UNCHANGED <<sKind, sRecs, sTail, sStream, sEnd, sEOF, sErr>>
    /\ UNCHANGED <<idxVars, dictVars, sdVars>>
    /\ UNCHANGED extVars
    /\ UNCHANGED restVars

\* Scan() has no token in the buffer and reads more: n further bytes, or
\* io.EOF at the end of the stream
ScanRead ==
    /\ sState = "scan"
    /\ ~sEOF
    /\ sEnd > sStart => splitIndex(sKind, Buffered, sEOF) = <<>>
    /\ IF sEnd < Len(sStream)
       THEN \E n \in 1..(Len(sStream) - sEnd) : sEnd' = sEnd + n /\ sEOF' = sEOF
       ELSE sEnd' = sEnd /\ sEOF' = TRUE
    /\ op' = "ScanRead"
    /\ UNCHANGED <<sKind, sRecs, sTail, sStream, sStart, sTokens, sState, sErr>>
    /\ UNCHANGED <<idxVars, dictVars, sdVars>>
    /\ UNCHANGED extVars
    /\ UNCHANGED restVars

\* Scan() has no token at io.EOF and returns false; Err() hides io.EOF
ScanEnd ==
    /\ sState = "scan"
    /\ sEOF
    /\ splitIndex(sKind, Buffered, sEOF) = <<>>
    /\ sState' = "done"
    /\ sErr' = "nil"
    /\ op' = "ScanEnd"
    /\ UNCHANGED <<sKind, sRecs, sTail, sStream, sStart, sEnd, sEOF, sTokens>>
    /\ UNCHANGED <<idxVars, dictVars, sdVars>>
    /\ UNCHANGED extVars
    /\ UNCHANGED restVars

NextScan == ScanToken \/ ScanRead \/ ScanEnd

\* the bytes of a 16-bit half, big-endian
HalfBytes(h) == <<h \div 256, h % 256>>

RECURSIVE HalvesBytes(_, _)
HalvesBytes(hs, k) ==
    IF k > Len(hs) THEN <<>> ELSE HalfBytes(hs[k]) \o HalvesBytes(hs, k + 1)

\* one record as the writer emits it: word, NUL, offset, size (.idx) or
\* word, NUL, original word index (.syn)
RecBytes(kind, r) ==
    r.Word \o <<0>> \o
        (IF kind = "syn" THEN HalvesBytes(r.OriginalWordIndex, 1)
         ELSE IF kind = "idx64"
         THEN HalvesBytes(r.Offset, 1) \o HalvesBytes(r.Size, 1)
         ELSE HalvesBytes(SubSeq(r.Offset, 3, 4), 1) \o HalvesBytes(r.Size, 1))

RECURSIVE RecsBytes(_, _, _)
RecsBytes(kind, rs, k) ==
    IF k > Len(rs) THEN <<>>
    ELSE RecBytes(kind, rs[k]) \o RecsBytes(kind, rs, k + 1)

\* the records streams are written from
ScanPool(kind) ==
    IF kind = "syn"
    THEN { [Word |-> <<97>>, OriginalWordIndex |-> <<0, 1>>],
           [Word |-> <<>>,   OriginalWordIndex |-> <<65535, 65535>>] }
    ELSE IF kind = "idx64"
    THEN { [Word |-> <<97>>, Offset |-> <<0, 0, 0, 258>>, Size |-> <<0, 3>>],
           [Word |-> <<>>,   Offset |-> <<65535, 65535, 65535, 65535>>,
            Size |-> <<65535, 65535>>] }
    ELSE { [Word |-> <<97>>, Offset |-> <<0, 0, 0, 258>>, Size |-> <<0, 3>>],
           [Word |-> <<>>,   Offset |-> <<0, 0, 65535, 65535>>,
            Size |-> <<65535, 65535>>] }

\* the proper prefixes of the bytes of one record: what a truncated stream
\* ends with (the empty prefix: the stream is not truncated)
Tails(kind) ==
    { SubSeq(RecBytes(kind, r), 1, n) :
        r \in ScanPool(kind), n \in 0..(Trailer(kind)) }

\* a scanner over any stream of whole records and a tail
InitScan ==
    /\ IdxInit
    /\ DictInit
    /\ SDInit
    /\ ExtInit
    /\ RestInit
    /\ sKind \in {"idx32", "idx64", "syn"}
    /\ sRecs \in SeqsUpTo(ScanPool(sKind), MaxScanRecs)
    /\ sTail \in Tails(sKind)
    /\ sStream = RecsBytes(sKind, sRecs, 1) \o sTail
    /\ sStart = 0
    /\ sEnd = 0
    /\ sEOF = FALSE
    /\ sTokens = <<>>
    /\ sState = "scan"
    /\ sErr = "nil"
    /\ op = "init"

SpecScan == InitScan /\ [][NextScan]_vars

(***************************************************************************)
(* The Stardict facade: Index() and Dict() open lazily, Search reads and   *)
(* parses the payload of every index hit.                                  *)
(***************************************************************************)
\* The .dict file of the dictionary: "mh\0" at 0, "W\0\0\0\1\7" at 3 and
\* "mi" at 9, 11 bytes in all.
DictFile == <<109, 104, 0, 87, 0, 0, 0, 1, 7, 109, 105>>

\* a Dict.Word without the offset check
OffsetTooLargeNever(off) == FALSE

\* e.Offset > math.MaxInt64
OffsetTooLarge(off) == off[1] >= 32768

\* os.File.ReadAt(make([]byte, size), int64(off)): the bytes, or an error
\* when the file ends before size bytes were read
ReadAt(file, off, size) ==
    IF size = <<0, 0>> THEN [status |-> "ok", bytes |-> <<>>]
    ELSE IF size[1] # 0 \/ off[1] # 0 \/ off[2] # 0 \/ off[3] >= 32768
    THEN [status |-> "err", bytes |-> <<>>]
    ELSE LET start == off[3] * 65536 + off[4] IN
         IF start + size[2] <= Len(file)
         THEN [status |-> "ok", bytes |-> SubSeq(file, start + 1, start + size[2])]
         ELSE [status |-> "err", bytes |-> <<>>]

\* Dict.Word
DictWord(file, sts, e) ==
    IF OffsetTooLarge(e.Offset) THEN [status |-> "err", data |-> <<>>]
    ELSE LET r == ReadAt(file, e.Offset, e.Size) IN
         IF r.status # "ok" THEN [status |-> "err", data |-> <<>>]
         ELSE ParseWord(sts, r.bytes)

\* the loop of Stardict.Search over the index words
RECURSIVE searchLoop(_, _, _, _, _)
searchLoop(file, sts, ws, k, entries) ==
    IF k > Len(ws) THEN [status |-> "ok", entries |-> entries]
    ELSE LET w == DictWord(file, sts, ws[k]) IN
         IF w.status = "err" THEN [status |-> "err", entries |-> <<>>]
         ELSE IF w.status = "panic" THEN [status |-> "panic", entries |-> <<>>]
         ELSE searchLoop(file, sts, ws, k + 1,
                         Append(entries, [word |-> ws[k].Word, data |-> w.data]))

\* index.FullTextSearch(query) of Stardict.Search: package idx has no
\* FullTextSearch any more; the words are those of Idx.Search and its error
\* is returned
FullTextSearch(ix, f, q) == SearchResult(ix, f, q)

\* Stardict.Index(): builds the index on first use
SDIndex ==
    /\ sdOut.status # "none"
    /\ built = "none"
    /\ LET r == NewWithSynResult(folder, idxIn, synIn) IN
          /\ built' = r.status
          /\ index' = r.index
    /\ op' = "SDIndex"
    /\ UNCHANGED <<idxIn, synIn, folder, query, words, err, hits, nSearch>>
    /\ UNCHANGED <<dictVars, scanVars, sdVars>>
    /\ UNCHANGED extVars
    /\ UNCHANGED restVars

\* Stardict.Search(query): Index(), Dict(), then one Entry per index word
SDSearch ==
    /\ sdOut.status # "none"
    /\ nSearch < MaxSearches
    /\ LET b == IF built = "none" THEN NewWithSynResult(folder, idxIn, synIn)
                ELSE [status |-> built, index |-> index]
       IN  /\ built' = b.status
           /\ index' = b.index
           /\ \E q \in Queries :
                 /\ query' = q
                 /\ IF b.status # "ok"
                    THEN /\ err' = "nil" /\ hits' = <<>> /\ words' = <<>>
                         /\ sdOut' = [status |-> "panic", entries |-> <<>>]
                    ELSE LET r == FullTextSearch(b.index, folder, q) IN
                         /\ err' = r.err
                         /\ hits' = r.hits
                         /\ words' = WordsOf(r.hits)
                         /\ sdOut' = IF r.err # "nil"
                                     THEN [status |-> "err", entries |-> <<>>]
                                     ELSE searchLoop(DictFile, sdSts, WordsOf(r.hits),
                                                     1, <<>>)
    /\ nSearch' = nSearch + 1
    /\ op' = "SDSearch"
    /\ UNCHANGED <<idxIn, synIn, folder, sdSts>>
    /\ UNCHANGED <<dictVars, scanVars>>
    /\ UNCHANGED extVars
    /\ UNCHANGED restVars

NextSD == SDIndex \/ SDSearch

\* Open: any .idx and .syn records, folder and sametypesequence
InitSD ==
    /\ idxIn \in SeqsUpTo(HeadPool, MaxIdx)
    /\ synIn \in SeqsUpTo(SynRecs, MaxSyn)
    /\ folder \in Folders
    /\ built = "none"
    /\ index = <<>>
    /\ query = <<>>
    /\ words = <<>>
    /\ err = "nil"
    /\ hits = <<>>
    /\ nSearch = 0
    /\ DictInit
    /\ ScanInit
    /\ ExtInit
    /\ RestInit
    /\ sdSts \in {<<>>, <<109>>}
    /\ sdOut = [status |-> "open", entries |-> <<>>]
    /\ op = "init"

SpecSD == InitSD /\ [][NextSD]_vars

(***************************************************************************)
(* An Idx whose Options.Folder is a *folding.WhitespaceFolder.  The Idx    *)
(* keeps the one transformer it was given: NewWithSyn folds every word     *)
(* with it and every Search folds its query with it.                       *)
(***************************************************************************)
\* the .idx records: "a b", "ab", "b"
WsHeadPool ==
    { [Word |-> <<97, 32, 98>>, Offset |-> <<0, 0, 0, 0>>, Size |-> <<0, 3>>],
      [Word |-> <<97, 98>>,     Offset |-> <<0, 0, 0, 3>>, Size |-> <<0, 6>>],
      [Word |-> <<98>>,         Offset |-> <<0, 0, 0, 9>>, Size |-> <<0, 2>>] }

\* the queries: "a b", "a<TAB>b", " b", "a ", "b", "a *", "*b", "[b", ""
WsQueries ==
    { <<97, 32, 98>>, <<97, 9, 98>>, <<32, 98>>, <<97, 32>>, <<98>>,
      <<97, 32, 42>>, <<42, 98>>, <<91, 98>>, <<>> }

\* the transformer after the transform.String calls of NewWithSyn, one per
\* record in file order
RECURSIVE foldWords(_, _, _)
foldWords(t, recs, k) ==
    IF k > Len(recs) THEN t
    ELSE foldWords(TransformString(t, recs[k].Word).t, recs, k + 1)

WsIdxInit ==
    /\ idxIn \in SeqsUpTo(WsHeadPool, MaxIdx)
    /\ synIn = <<>>
    /\ folder = "ws"
    /\ built = "ok"
    /\ index = NewWithSynResult(folder, idxIn, synIn).index
    /\ fw = foldWords(Folder(folder), idxIn, 1).w
    /\ trace = <<>>
    /\ query = <<>>
    /\ words = <<>>
    /\ err = "nil"
    /\ hits = <<>>
    /\ nSearch = 0
    /\ DictInit
    /\ ScanInit
    /\ SDInit

\* Search calls made one after another on the one Idx
SeqSearch ==
    /\ built = "ok"
    /\ Len(trace) < MaxSeqSearches
    /\ \E q \in WsQueries :
          LET r == SearchOn(index, [kind |-> folder, w |-> fw], q) IN
          /\ fw' = r.t.w
          /\ query' = q
          /\ err' = r.res.err
          /\ hits' = r.res.hits
          /\ words' = WordsOf(r.res.hits)
          /\ trace' = Append(trace, [query |-> q, err |-> r.res.err])
    /\ nSearch' = nSearch + 1
    /\ op' = "SeqSearch"
    /\ UNCHANGED <<idxIn, synIn, folder, built, index>>
    /\ UNCHANGED <<dictVars, scanVars, sdVars, concVars, facadeVars, walkVars, ifoVars>>
    /\ UNCHANGED restVars

InitSeq ==
    WsIdxInit /\ ConcInit /\ FacadeInit /\ WalkInit /\ IfoInit /\ RestInit /\ op = "init"

NextSeq == SeqSearch

SpecSeq == InitSeq /\ [][NextSeq]_vars

(***************************************************************************)
(* Search calls running concurrently on the one Idx.  Each call is cut at  *)
(* its accesses to the shared transformer: the Reset of transform.String   *)
(* and every iteration of the loop of Transform; an iteration is taken as  *)
(* one step.  The queries hold no special byte, so foldGlob calls          *)
(* transform.String once, on the whole query; everything else a call       *)
(* touches is its own or is only read.                                     *)
(***************************************************************************)
Calls == 1..MaxCalls

\* the queries: "a b", "ab", "b"
ConcQueries == { <<97, 32, 98>>, <<97, 98>>, <<98>> }

InitConc ==
    /\ WsIdxInit
    /\ FacadeInit
    /\ WalkInit
    /\ IfoInit
    /\ RestInit
    /\ cPc = [c \in Calls |-> "idle"]
    /\ cQuery = [c \in Calls |-> <<>>]
    /\ cPos = [c \in Calls |-> 0]
    /\ cDst = [c \in Calls |-> <<>>]
    /\ cOut = [c \in Calls |-> [err |-> "none", hits |-> <<>>]]
    /\ op = "init"

\* Search(query) is called: foldGlob copies the query into its builder
CallSearch(c) ==
    /\ cPc[c] = "idle"
    /\ \E q \in ConcQueries : cQuery' = [cQuery EXCEPT ![c] = q]
    /\ cPc' = [cPc EXCEPT ![c] = "reset"]
    /\ op' = "CallSearch"
    /\ UNCHANGED <<cPos, cDst, cOut, foldVars>>
    /\ UNCHANGED <<idxVars, dictVars, scanVars, sdVars, facadeVars, walkVars, ifoVars>>
    /\ UNCHANGED restVars

\* transform.String: t.Reset()
CallReset(c) ==
    /\ cPc[c] = "reset"
    /\ fw' = WsReset
    /\ cPos' = [cPos EXCEPT ![c] = 1]
    /\ cDst' = [cDst EXCEPT ![c] = <<>>]
    /\ cPc' = [cPc EXCEPT ![c] = "transform"]
    /\ op' = "CallReset"
    /\ UNCHANGED <<cQuery, cOut, trace>>
    /\ UNCHANGED <<idxVars, dictVars, scanVars, sdVars, facadeVars, walkVars, ifoVars>>
    /\ UNCHANGED restVars

\* Transform: one iteration of the loop
CallRune(c) ==
    /\ cPc[c] = "transform"
    /\ cPos[c] <= Len(cQuery[c])
    /\ LET r == wsRune(fw, cQuery[c][cPos[c]]) IN
          /\ fw' = r.w
          /\ cDst' = [cDst EXCEPT ![c] = cDst[c] \o r.out]
    /\ cPos' = [cPos EXCEPT ![c] = cPos[c] + 1]
    /\ op' = "CallRune"
    /\ UNCHANGED <<cPc, cQuery, cOut, trace>>
    /\ UNCHANGED <<idxVars, dictVars, scanVars, sdVars, facadeVars, walkVars, ifoVars>>
    /\ UNCHANGED restVars

\* Transform is at the end of the query: the rest of Search runs on the
\* folded query and the call returns
CallReturn(c) ==
    /\ cPc[c] = "transform"
    /\ cPos[c] > Len(cQuery[c])
    /\ cOut' = [cOut EXCEPT ![c] = SearchFolded(index, cDst[c])]
    /\ cPc' = [cPc EXCEPT ![c] = "done"]
    /\ op' = "CallReturn"
    /\ UNCHANGED <<cQuery, cPos, cDst, foldVars>>
    /\ UNCHANGED <<idxVars, dictVars, scanVars, sdVars, facadeVars, walkVars, ifoVars>>
    /\ UNCHANGED restVars

NextConc ==
    \E c \in Calls : CallSearch(c) \/ CallReset(c) \/ CallRune(c) \/ CallReturn(c)

SpecConc == InitConc /\ [][NextConc]_vars

(***************************************************************************)
(* ifo.New: a bufio.Scanner with the default split function, ScanLines,    *)
(* yields the lines of the stream; the first is the magic, every other     *)
(* line that is not blank is split at its first '=' into key and value.    *)
(* Code points: LF 10, CR 13, ' ' 32, '=' 61.  The metadata map is the set *)
(* of its (key, value) pairs.                                              *)
(***************************************************************************)
\* dropCR of bufio
dropCR(data) ==
    IF Len(data) > 0 /\ data[Len(data)] = 13
    THEN SubSeq(data, 1, Len(data) - 1) ELSE data

\* the tokens of bufio.ScanLines on the stream from position k, cur being
\* the bytes read since the last LF; a final line needs no LF
RECURSIVE ScanLines(_, _, _)
ScanLines(stream, k, cur) ==
    IF k > Len(stream)
    THEN IF Len(cur) > 0 THEN <<dropCR(cur)>> ELSE <<>>
    ELSE IF stream[k] = 10
    THEN <<dropCR(cur)>> \o ScanLines(stream, k + 1, <<>>)
    ELSE ScanLines(stream, k + 1, Append(cur, stream[k]))

\* strings.TrimLeft(s, " ") and strings.TrimRight(s, " ")
RECURSIVE TrimLeft(_)
TrimLeft(s) == IF Len(s) > 0 /\ s[1] = 32 THEN TrimLeft(Tail(s)) ELSE s

RECURSIVE TrimRight(_)
TrimRight(s) ==
    IF Len(s) > 0 /\ s[Len(s)] = 32
    THEN TrimRight(SubSeq(s, 1, Len(s) - 1)) ELSE s

\* strings.SplitN(line, "=", 2): one piece when the line has no '='
SplitN(line) ==
    LET E == { k \in 1..Len(line) : line[k] = 61 }
    IN  IF E = {} THEN <<line>>
        ELSE LET e == CHOOSE k \in E : \A j \in E : k <= j
             IN  <<SubSeq(line, 1, e - 1), SubSeq(line, e + 1, Len(line))>>

\* keyRegex.MatchString(key), keyRegex being "[a-zA-Z0-9-_]+" with no
\* anchor: some part of the key matches
keyRegexMatch(key) ==
    \E k \in 1..Len(key) :
        key[k] \in (97..122) \cup (65..90) \cup (48..57) \cup {45, 95}

\* "version"
VersionKey == <<118, 101, 114, 115, 105, 111, 110>>

\* a loop that lets any key come first
missingVersionNever(i, key) == FALSE

\* i == 0 && key != "version": the first key read is not version
missingVersion(i, key) == i = 0 /\ key # VersionKey

\* the for s.Scan() loop of New from line k on, i key lines having been
\* read, and the checks after it
RECURSIVE ifoLoop(_, _, _, _)
ifoLoop(lines, k, i, metadata) ==
    IF k > Len(lines)
    THEN IF metadata = {} THEN [status |-> "errNoVersion", metadata |-> {}]
         ELSE [status |-> "ok", metadata |-> metadata]
    ELSE LET line == lines[k]
             v    == SplitN(line)
         IN  IF TrimLeft(TrimRight(line)) = <<>>
             THEN ifoLoop(lines, k + 1, i, metadata)
             ELSE IF Len(v) < 2
             THEN \* v[1]: index out of range
                  [status |-> "panic", metadata |-> {}]
             ELSE LET key   == TrimRight(v[1])
                      value == TrimLeft(v[2])
                  IN  IF ~keyRegexMatch(key)
                      THEN [status |-> "errInvalidKey", metadata |-> {}]
                      ELSE IF missingVersion(i, key)
                      THEN [status |-> "errNoVersion", metadata |-> {}]
                      ELSE ifoLoop(lines, k + 1, i + 1,
                                   { m \in metadata : m.key # key }
                                       \cup {[key |-> key, value |-> value]})

\* ifo.New(r)
ifoNew(stream) ==
    LET lines == ScanLines(stream, 1, <<>>)
        r     == ifoLoop(lines, 2, 0, {})
    IN  [status |-> r.status,
         magic |-> IF r.status = "ok" /\ Len(lines) > 0 THEN lines[1] ELSE <<>>,
         metadata |-> r.metadata]

\* Ifo.Value(key): the zero value "" for a key the map does not hold
Value(ifo, key) ==
    IF \E m \in ifo.metadata : m.key = key
    THEN (CHOOSE m \in ifo.metadata : m.key = key).value
    ELSE <<>>

\* the lines streams are written from: "m", "", " ", "version=1",
\* "version = 2", "a=b", "a", "=b", "!=b", "a!=b"
IfoLinePool ==
    { <<109>>, <<>>, <<32>>,
      VersionKey \o <<61, 49>>,
      VersionKey \o <<32, 61, 32, 50>>,
      <<97, 61, 98>>, <<97>>, <<61, 98>>, <<33, 61, 98>>, <<97, 33, 61, 98>> }

\* the stream of the lines, each ended by eol; the last one is left
\* without when lastEol is false and it is not empty
RECURSIVE IfoBytes(_, _, _, _)
IfoBytes(lines, k, eol, lastEol) ==
    IF k > Len(lines) THEN <<>>
    ELSE lines[k]
         \o (IF k = Len(lines) /\ ~lastEol /\ Len(lines[k]) > 0
             THEN <<>> ELSE eol)
         \o IfoBytes(lines, k + 1, eol, lastEol)

InitIfo ==
    /\ IdxInit
    /\ DictInit
    /\ ScanInit
    /\ SDInit
    /\ FoldInit
    /\ ConcInit
    /\ FacadeInit
    /\ WalkInit
    /\ RestInit
    /\ ifoIn \in SeqsUpTo(IfoLinePool, MaxIfoLines)
    /\ \E eol \in {<<10>>, <<13, 10>>}, lastEol \in BOOLEAN :
          ifoStream = IfoBytes(ifoIn, 1, eol, lastEol)
    /\ ifoOut = [status |-> "none"]
    /\ op = "init"

IfoNew ==
    /\ ifoOut.status = "none"
    /\ ifoOut' = ifoNew(ifoStream)
    /\ op' = "IfoNew"
    /\ UNCHANGED <<ifoIn, ifoStream>>
    /\ UNCHANGED <<idxVars, dictVars, scanVars, sdVars, foldVars, concVars, facadeVars, walkVars>>
    /\ UNCHANGED restVars

NextIfo == IfoNew

SpecIfo == InitIfo /\ [][NextIfo]_vars

(***************************************************************************)
(* The Stardict facade and the files it opens.  Open reads the .ifo;       *)
(* Index() and Dict() open the .idx and the .dict on first use; Close      *)
(* closes Stardict.dictFile.  The files of a dictionary are                *)
(*   ifoFile "missing", or what ifo.New does on it: "ok" (with its keys),  *)
(*           "errNoVersion", "errInvalidKey" or "panic",                   *)
(*   idx     "missing", "plain", "gz" or "gzbad" (not a gzip stream),      *)
(*   dict    "missing", "plain", "dz" or "dzbad" (not a dictzip file).     *)
(***************************************************************************)
ifoMagic == "StarDict's dict ifo file"

Digits(s) == \A i \in 1..Len(s) : s[i] \in 48..57

RECURSIVE DecValue(_, _, _)
DecValue(s, k, acc) ==
    IF k > Len(s) THEN acc ELSE DecValue(s, k + 1, acc * 10 + (s[k] - 48))

\* strconv.ParseInt(s, 10, 64), for texts too short to leave int64
ParseInt(s) ==
    LET signed == Len(s) > 0 /\ s[1] \in {43, 45}
        d      == IF signed THEN Tail(s) ELSE s
    IN  IF Len(d) = 0 \/ ~Digits(d) THEN [ok |-> FALSE, n |-> 0]
        ELSE [ok |-> TRUE,
              n  |-> IF signed /\ s[1] = 45 THEN 0 - DecValue(d, 1, 0)
                     ELSE DecValue(d, 1, 0)]

\* an Open that reads idxoffsetbits whatever the version
OpenIdxOffsetBitsAnyVersion(version, idxoffsetbits) ==
    IF idxoffsetbits # <<>>
    THEN LET p == ParseInt(idxoffsetbits)
         IN  [ok |-> p.ok, bits |-> IF p.ok THEN p.n ELSE 32]
    ELSE [ok |-> TRUE, bits |-> 32]

\* Stardict.idxoffsetbits: 32 from the constructor, replaced by the key's
\* value when the key is not empty and the version is 3.0.0
OpenIdxOffsetBits(version, idxoffsetbits) ==
    IF idxoffsetbits # <<>> /\ version = "3.0.0"
    THEN LET p == ParseInt(idxoffsetbits)
         IN  [ok |-> p.ok, bits |-> IF p.ok THEN p.n ELSE 32]
    ELSE [ok |-> TRUE, bits |-> 32]

\* for _, r := range sametypesequence: the runes of the UTF-8 decoding of
\* the bytes from position k on
RECURSIVE RangeRunes(_, _)
RangeRunes(v, k) ==
    IF k > Len(v) THEN <<>>
    ELSE LET d == DecodeRune(v, k) IN <<d.c>> \o RangeRunes(v, k + d.size)

\* dict.DataType(r): the conversion of a rune to a byte keeps its low 8 bits
DataType(r) == r % 256

\* Stardict.sametypesequence: one DataType per rune of the .ifo value
SameTypeSequence(v) ==
    LET rs == RangeRunes(v, 1) IN [k \in 1..Len(rs) |-> DataType(rs[k])]

\* Open(path): the error, the Stardict, and the .ifo handles it opened and
\* closed (the deferred ifoFile.Close())
Open(f) ==
    LET fail(e, n) == [err |-> e, s |-> [state |-> "failed"],
                       opened |-> n, closed |-> n]
        i    == f.ifo
        bits == OpenIdxOffsetBits(i.version, i.idxoffsetbits)
    IN  IF f.ext \notin {".ifo", ".IFO"} THEN fail("errIfoExtension", 0)
        ELSE IF f.ifoFile = "missing" THEN fail("opening", 0)
        ELSE IF f.ifoFile = "panic"
        THEN [err |-> "panic", s |-> [state |-> "panic"],
              opened |-> 1, closed |-> 1]
        ELSE IF f.ifoFile # "ok" THEN fail(f.ifoFile, 1)
        ELSE IF i.magic # ifoMagic THEN fail("errInvalidMagic", 1)
        ELSE IF i.version \notin {"2.4.2", "3.0.0"}
        THEN fail("errInvalidVersion", 1)
        ELSE IF i.bookname = "" THEN fail("errNoBookname", 1)
        ELSE IF ~ParseInt(i.wordcount).ok THEN fail("invalid wordcount", 1)
        ELSE IF ~ParseInt(i.idxfilesize).ok THEN fail("invalid idxfilesize", 1)
        ELSE IF ~bits.ok THEN fail("invalid idxoffsetbits", 1)
        ELSE IF i.synwordcount # <<>> /\ ~ParseInt(i.synwordcount).ok
        THEN fail("bad synwordcount", 1)
        ELSE [err |-> "nil",
              s |-> [state |-> "open",
                     version |-> i.version,
                     bookname |-> i.bookname,
                     wordcount |-> ParseInt(i.wordcount).n,
                     idxoffsetbits |-> bits.bits,
                     sametypesequence |-> SameTypeSequence(i.sametypesequence),
                     idx |-> "nil", idxWidth |-> 0,
                     dict |-> "nil", dictFile |-> "nil"],
              opened |-> 1, closed |-> 1]

\* openIdx: the .idx is opened, read into an Idx through a Scanner of
\* Stardict.idxoffsetbits, and closed by the deferred f.Close()
openIdx(f, s) ==
    IF f.idx = "missing"
    THEN [err |-> "opening index file", s |-> s, opened |-> 0, closed |-> 0]
    ELSE IF f.idx = "gzbad"
    THEN [err |-> "error opening", s |-> s, opened |-> 1, closed |-> 1]
    ELSE IF s.idxoffsetbits \notin {32, 64}
    THEN [err |-> "ErrInvalidIdxOffset", s |-> s, opened |-> 1, closed |-> 1]
    ELSE [err |-> "nil",
          s |-> [s EXCEPT !.idx = "set", !.idxWidth = s.idxoffsetbits],
          opened |-> 1, closed |-> 1]

\* the DataType values dict.New accepts in a sametypesequence:
\* m l g t x y p w h n r W P X
ValidType(t) ==
    t \in {109, 108, 103, 116, 120, 121, 112, 119, 104, 110, 114, 87, 80, 88}

\* openDict: the .dict is opened and kept in Stardict.dictFile once
\* dictzip.NewReader and dict.New have succeeded
openDict(f, s) ==
    IF f.dict = "missing"
    THEN [err |-> "error opening", s |-> s, opened |-> 0, closed |-> 0]
    ELSE IF f.dict = "dzbad"
    THEN [err |-> "opening dictzip", s |-> s, opened |-> 1, closed |-> 0]
    ELSE IF \E k \in 1..Len(s.sametypesequence) :
                ~ValidType(s.sametypesequence[k])
    THEN [err |-> "errInvalidType", s |-> s, opened |-> 1, closed |-> 0]
    ELSE [err |-> "nil",
          s |-> [s EXCEPT !.dict = "set", !.dictFile = "open"],
          opened |-> 1, closed |-> 0]

\* Stardict.Index()
Index(f, s) ==
    IF s.idx # "nil"
    THEN [err |-> "nil", s |-> s, opened |-> 0, closed |-> 0]
    ELSE openIdx(f, s)

\* Stardict.Dict()
Dict(f, s) ==
    IF s.dict # "nil"
    THEN [err |-> "nil", s |-> s, opened |-> 0, closed |-> 0]
    ELSE openDict(f, s)

\* the .ifo files: every version with every idxoffsetbits ("", "32", "64",
\* "123", "x"), and a well-formed one with one key changed
IfoKeys(version, idxoffsetbits) ==
    [magic |-> ifoMagic, version |-> version, bookname |-> "hoge",
     wordcount |-> <<49>>, idxfilesize |-> <<54>>,
     idxoffsetbits |-> idxoffsetbits, synwordcount |-> <<>>,
     sametypesequence |-> <<>>]

IfoPool ==
    { IfoKeys(v, b) : v \in {"2.4.2", "3.0.0", "1.0"},
                      b \in {<<>>, <<51, 50>>, <<54, 52>>, <<49, 50, 51>>,
                             <<120>>} }
    \cup { [IfoKeys("3.0.0", <<>>) EXCEPT !.magic = "StarDict"],
           [IfoKeys("3.0.0", <<>>) EXCEPT !.bookname = ""],
           [IfoKeys("3.0.0", <<>>) EXCEPT !.wordcount = <<120>>],
           [IfoKeys("3.0.0", <<>>) EXCEPT !.idxfilesize = <<>>],
           [IfoKeys("3.0.0", <<>>) EXCEPT !.synwordcount = <<120>>],
           [IfoKeys("3.0.0", <<>>) EXCEPT !.sametypesequence = <<109>>],
           [IfoKeys("3.0.0", <<>>) EXCEPT !.sametypesequence = <<63>>],
           [IfoKeys("3.0.0", <<>>) EXCEPT !.sametypesequence = <<109, 87>>],
           [IfoKeys("3.0.0", <<>>) EXCEPT !.sametypesequence = <<109, 63>>],
           [IfoKeys("3.0.0", <<>>) EXCEPT !.sametypesequence = <<197, 173>>],
           [IfoKeys("3.0.0", <<>>) EXCEPT !.sametypesequence = <<255>>] }

Files ==
    [ext : {".ifo"}, ifoFile : {"ok"}, ifo : IfoPool,
     idx : {"missing", "plain", "gz", "gzbad"},
     dict : {"missing", "plain", "dz", "dzbad"}]
    \cup [ext : {".ifo"},
          ifoFile : {"missing", "errNoVersion", "errInvalidKey", "panic"},
          ifo : {IfoKeys("3.0.0", <<>>)}, idx : {"plain"}, dict : {"plain"}]
    \cup [ext : {".txt"}, ifoFile : {"ok"}, ifo : {IfoKeys("3.0.0", <<>>)},
          idx : {"plain"}, dict : {"plain"}]

InitFacade ==
    /\ IdxInit
    /\ DictInit
    /\ ScanInit
    /\ SDInit
    /\ FoldInit
    /\ ConcInit
    /\ WalkInit
    /\ IfoInit
    /\ RestInit
    /\ fs \in Files
    /\ sd = [state |-> "none"]
    /\ handles = [ifo |-> 0, idx |-> 0, dict |-> 0]
    /\ fErr = "nil"
    /\ nOps = 0
    /\ op = "init"

StardictOpen ==
    /\ sd.state = "none"
    /\ LET r == Open(fs) IN
          /\ sd' = r.s
          /\ fErr' = r.err
          /\ handles' = [handles EXCEPT !.ifo = @ + r.opened - r.closed]
    /\ op' = "Open"
    /\ UNCHANGED <<fs, nOps>>
    /\ UNCHANGED <<idxVars, dictVars, scanVars, sdVars, foldVars, concVars, walkVars, ifoVars>>
    /\ UNCHANGED restVars

StardictIndex ==
    /\ sd.state = "open"
    /\ nOps < MaxOps
    /\ nOps' = nOps + 1
    /\ LET r == Index(fs, sd) IN
          /\ sd' = r.s
          /\ fErr' = r.err
          /\ handles' = [handles EXCEPT !.idx = @ + r.opened - r.closed]
    /\ op' = "Index"
    /\ UNCHANGED fs
    /\ UNCHANGED <<idxVars, dictVars, scanVars, sdVars, foldVars, concVars, walkVars, ifoVars>>
    /\ UNCHANGED restVars

StardictDict ==
    /\ sd.state = "open"
    /\ nOps < MaxOps
    /\ nOps' = nOps + 1
    /\ LET r == Dict(fs, sd) IN
          /\ sd' = r.s
          /\ fErr' = r.err
          /\ handles' = [handles EXCEPT !.dict = @ + r.opened - r.closed]
    /\ op' = "Dict"
    /\ UNCHANGED fs
    /\ UNCHANGED <<idxVars, dictVars, scanVars, sdVars, foldVars, concVars, walkVars, ifoVars>>
    /\ UNCHANGED restVars

\* Stardict.Search: Index(), then Dict(), then the entries of the hits
\* (reading them opens no file)
StardictSearch ==
    /\ sd.state = "open"
    /\ nOps < MaxOps
    /\ nOps' = nOps + 1
    /\ LET i == Index(fs, sd)
           d == IF i.err = "nil" THEN Dict(fs, i.s)
                ELSE [err |-> i.err, s |-> i.s, opened |-> 0, closed |-> 0]
       IN  /\ sd' = d.s
           /\ fErr' = d.err
           /\ handles' = [handles EXCEPT
                            !.idx = @ + i.opened - i.closed,
                            !.dict = @ + d.opened - d.closed]
    /\ op' = "Search"
    /\ UNCHANGED fs
    /\ UNCHANGED <<idxVars, dictVars, scanVars, sdVars, foldVars, concVars, walkVars, ifoVars>>
    /\ UNCHANGED restVars

\* Stardict.Close: dictFile.Close() when dictFile is not nil
StardictClose ==
    /\ sd.state = "open"
    /\ IF sd.dictFile = "open"
       THEN /\ sd' = [sd EXCEPT !.state = "closed", !.dictFile = "closed"]
            /\ handles' = [handles EXCEPT !.dict = @ - 1]
       ELSE /\ sd' = [sd EXCEPT !.state = "closed"]
            /\ handles' = handles
    /\ fErr' = "nil"
    /\ op' = "Close"
    /\ UNCHANGED <<fs, nOps>>
    /\ UNCHANGED <<idxVars, dictVars, scanVars, sdVars, foldVars, concVars, walkVars, ifoVars>>
    /\ UNCHANGED restVars

NextFacade ==
    StardictOpen \/ StardictIndex \/ StardictDict \/ StardictSearch
        \/ StardictClose

SpecFacade == InitFacade /\ [][NextFacade]_vars

(***************************************************************************)
(* OpenAll: filepath.WalkDir calls the function literal once per entry, in *)
(* walk order.  An entry is a directory or a file; WalkDir passes a        *)
(* non-nil err only with a directory it could not read (or the root it     *)
(* could not stat).  Whatever the function returns other than nil ends the *)
(* walk and is what WalkDir returns.                                       *)
(***************************************************************************)
\* a file of the directory: its extension and, for Open, its content
WalkFile(ext, keys) ==
    [ext |-> ext, ifoFile |-> "ok", ifo |-> keys, idx |-> "plain",
     dict |-> "plain"]

\* a.ifo and b.IFO open, c.ifo has no bookname, d.txt, e.Ifo, a directory
\* named f.ifo, a directory that cannot be read, g.ifo with a line that
\* has no '='
WalkPool ==
    { [isDir |-> FALSE, err |-> FALSE,
       file |-> WalkFile(".ifo", IfoKeys("3.0.0", <<>>))],
      [isDir |-> FALSE, err |-> FALSE,
       file |-> WalkFile(".IFO", [IfoKeys("2.4.2", <<>>) EXCEPT
                                    !.bookname = "fuga"])],
      [isDir |-> FALSE, err |-> FALSE,
       file |-> WalkFile(".ifo", [IfoKeys("3.0.0", <<>>) EXCEPT
                                    !.bookname = ""])],
      [isDir |-> FALSE, err |-> FALSE,
       file |-> WalkFile(".txt", IfoKeys("3.0.0", <<>>))],
      [isDir |-> FALSE, err |-> FALSE,
       file |-> WalkFile(".Ifo", IfoKeys("3.0.0", <<>>))],
      [isDir |-> TRUE, err |-> FALSE,
       file |-> WalkFile(".ifo", IfoKeys("3.0.0", <<>>))],
      [isDir |-> TRUE, err |-> TRUE,
       file |-> WalkFile("", IfoKeys("3.0.0", <<>>))],
      [isDir |-> FALSE, err |-> FALSE,
       file |-> [WalkFile(".ifo", IfoKeys("3.0.0", <<>>)) EXCEPT
                   !.ifoFile = "panic"]] }

\* the function literal OpenAll passes to WalkDir, on the entry e
walkFn(e, dicts, errs) ==
    IF e.err
    THEN [dicts |-> dicts, errs |-> Append(errs, "walk"), tried |-> FALSE,
          ret |-> "nil"]
    ELSE IF ~e.isDir /\ e.file.ext \in {".ifo", ".IFO"}
    THEN LET r == Open(e.file) IN
         IF r.err = "panic"
         THEN [dicts |-> dicts, errs |-> errs, tried |-> TRUE, ret |-> "panic"]
         ELSE IF r.err # "nil"
         THEN [dicts |-> dicts, errs |-> Append(errs, r.err), tried |-> TRUE,
               ret |-> "nil"]
         ELSE [dicts |-> Append(dicts, r.s), errs |-> errs, tried |-> TRUE,
               ret |-> "nil"]
    ELSE [dicts |-> dicts, errs |-> errs, tried |-> FALSE, ret |-> "nil"]

InitWalk ==
    /\ IdxInit
    /\ DictInit
    /\ ScanInit
    /\ SDInit
    /\ FoldInit
    /\ ConcInit
    /\ FacadeInit
    /\ IfoInit
    /\ RestInit
    /\ wEntries \in SeqsUpTo(WalkPool, MaxEntries)
    /\ wPos = 0
    /\ wDicts = <<>>
    /\ wErrs = <<>>
    /\ wTried = {}
    /\ wOut = [status |-> "none"]
    /\ op = "init"

\* WalkDir visits the next entry; a panic of the function leaves OpenAll
WalkFn ==
    /\ wOut.status = "none"
    /\ wPos < Len(wEntries)
    /\ LET r == walkFn(wEntries[wPos + 1], wDicts, wErrs) IN
          /\ wDicts' = r.dicts
          /\ wTried' = IF r.tried THEN wTried \cup {wPos + 1} ELSE wTried
          /\ wErrs' = r.errs
          /\ wOut' = IF r.ret = "panic" THEN [status |-> "panic"] ELSE wOut
    /\ wPos' = wPos + 1
    /\ op' = "WalkFn"
    /\ UNCHANGED wEntries
    /\ UNCHANGED <<idxVars, dictVars, scanVars, sdVars, foldVars, concVars, facadeVars, ifoVars>>
    /\ UNCHANGED restVars

\* WalkDir has visited every entry and returns nil: return dicts, errs
OpenAllReturn ==
    /\ wOut.status = "none"
    /\ wPos = Len(wEntries)
    /\ wOut' = [status |-> "returned", dicts |-> wDicts, errs |-> wErrs]
    /\ op' = "OpenAllReturn"
    /\ UNCHANGED <<wEntries, wPos, wDicts, wErrs, wTried>>
    /\ UNCHANGED <<idxVars, dictVars, scanVars, sdVars, foldVars, concVars, facadeVars, ifoVars>>
    /\ UNCHANGED restVars

NextWalk == WalkFn \/ OpenAllReturn

SpecWalk == InitWalk /\ [][NextWalk]_vars

(***************************************************************************)
(* Dict.Word on any index entry and any reader content.  The reader is an  *)
(* os.File: ReadAt of a negative offset is an error, and so is a read the  *)
(* file ends before.                                                       *)
(***************************************************************************)
\* int64(e.Offset): the same 64 bits, negative when the top bit is set
Int64(off) == [neg |-> off[1] >= 32768, bits |-> off]

\* d.r.ReadAt(b, int64(e.Offset))
ReadAtInt64(file, o, size) ==
    IF o.neg THEN [status |-> "err", bytes |-> <<>>]
    ELSE ReadAt(file, o.bits, size)

\* Dict.Word, with the reads it issued on the reader
DictWordReads(file, sts, e) ==
    IF OffsetTooLarge(e.Offset)
    THEN [status |-> "errWordOffsetTooLarge", data |-> <<>>, reads |-> <<>>]
    ELSE LET o     == Int64(e.Offset)
             r     == ReadAtInt64(file, o, e.Size)
             reads == <<[off |-> o, n |-> e.Size]>>
         IN  IF r.status # "ok"
             THEN [status |-> "errRead", data |-> <<>>, reads |-> reads]
             ELSE LET w == ParseWord(sts, r.bytes)
                  IN  [status |-> w.status, data |-> w.data, reads |-> reads]

\* the bytes of the .dict files: NUL, 1, 'm'
WordBytes == {0, 1, 109}

\* the offsets of the index entries: 0, 1, 2^63-1, 2^63
WordOffsets ==
    { <<0, 0, 0, 0>>, <<0, 0, 0, 1>>, <<32767, 65535, 65535, 65535>>,
      <<32768, 0, 0, 0>> }

\* the sametypesequence of the Dict: none, "m", "W", "mW"
WordSts == { <<>>, <<109>>, <<87>>, <<109, 87>> }

\* a Dict over any file and an index entry of any offset and size
InitWord ==
    /\ IdxInit
    /\ DictInit
    /\ ScanInit
    /\ SDInit
    /\ ExtInit
    /\ TfInit
    /\ PunctInit
    /\ IndexInit
    /\ PrefixInit
    /\ wdFile \in SeqsUpTo(WordBytes, MaxPayload)
    /\ wdSts \in WordSts
    /\ wdE \in [Word : {<<97>>}, Offset : WordOffsets,
                Size : {<<0, n>> : n \in 0..MaxPayload}]
    /\ wdOut = [status |-> "none", data |-> <<>>, reads |-> <<>>]
    /\ op = "init"

\* d.Word(e)
Word ==
    /\ op = "init"
    /\ wdOut' = DictWordReads(wdFile, wdSts, wdE)
    /\ op' = "Word"
    /\ UNCHANGED <<wdFile, wdSts, wdE>>
    /\ UNCHANGED <<idxVars, dictVars, scanVars, sdVars, extVars, tfVars, punctVars>>
    /\ UNCHANGED <<indexVars, prefixVars>>

NextWord == Word

SpecWord == InitWord /\ [][NextWord]_vars

(***************************************************************************)
(* A caller of WhitespaceFolder.Transform: it feeds the bytes of an input  *)
(* through one folder in any number of calls, each with the unconsumed     *)
(* bytes up to some point of the input as src, a dst of some size, and     *)
(* atEOF set only when src reaches the end of the input.  It keeps the     *)
(* dst[:nDst] of every call and resumes at nSrc.                           *)
(***************************************************************************)
\* what the inputs are made of: "a", " ", tab, U+3000, the stray byte 0x80
WsPieces == { <<97>>, <<32>>, <<9>>, <<227, 128, 128>>, <<128>> }

RECURSIVE Flatten(_, _)
Flatten(ps, k) == IF k > Len(ps) THEN <<>> ELSE ps[k] \o Flatten(ps, k + 1)

\* len(dst): small sizes, and one no output of these inputs exceeds
DstSizes == (0..MaxDst) \cup {9 * MaxPieces}

InitTransform ==
    /\ IdxInit
    /\ DictInit
    /\ ScanInit
    /\ SDInit
    /\ ExtInit
    /\ WordInit
    /\ PunctInit
    /\ IndexInit
    /\ PrefixInit
    /\ \E ps \in SeqsUpTo(WsPieces, MaxPieces) : tIn = Flatten(ps, 1)
    /\ tPos = 0
    /\ tW = WsReset
    /\ tOut = <<>>
    /\ tLast = [err |-> "none", atEOF |-> FALSE, cap |-> 0, whole |-> FALSE]
    /\ tCalls = 0
    /\ op = "init"

\* nDst, nSrc, err := w.Transform(dst, src, atEOF)
TransformCall ==
    /\ tCalls < MaxTransforms
    /\ ~(tLast.err = "nil" /\ tLast.atEOF)
    /\ \E e \in tPos..Len(tIn), cap \in DstSizes, atEOF \in BOOLEAN :
          /\ atEOF => e = Len(tIn)
          /\ LET r == WsTransform(tW, cap, SubSeq(tIn, tPos + 1, e), atEOF) IN
                /\ tW' = r.w
                /\ tOut' = tOut \o r.out
                /\ tPos' = tPos + r.nSrc
                /\ tLast' = [err |-> r.err, atEOF |-> atEOF, cap |-> cap,
                             whole |-> tPos = 0 /\ e = Len(tIn)]
    /\ tCalls' = tCalls + 1
    /\ op' = "Transform"
    /\ UNCHANGED tIn
    /\ UNCHANGED <<idxVars, dictVars, scanVars, sdVars, extVars, wordVars, punctVars>>
    /\ UNCHANGED <<indexVars, prefixVars>>

NextTransform == TransformCall

SpecTransform == InitTransform /\ [][NextTransform]_vars

(***************************************************************************)
(* The default folding pipeline, Syn.foldTransformer as syn.New builds it:  *)
(* transform.Chain(norm.NFD, cases.Fold(), &folding.WhitespaceFolder{},    *)
(* runes.Remove(runes.In(unicode.Mn)), runes.Remove(runes.In(unicode.P)),  *)
(* norm.NFC), each stage applied to the whole output of the one before.    *)
(* The stages are given on ASCII, U+00E9 (e with acute) and the combining  *)
(* marks U+0300..U+036F.                                                   *)
(***************************************************************************)
\* runes.In(unicode.Mn)
IsMn(c) == 768 <= c /\ c <= 879

\* runes.In(unicode.P), on ASCII
IsPunct(c) ==
    c \in {33, 34, 35, 37, 38, 39, 40, 41, 42, 44, 45, 46, 47, 58, 59, 63, 64,
           91, 92, 93, 95, 123, 125}

\* what a stage that works rune by rune writes for the rune c: norm.NFD
\* decomposes U+00E9 to 'e', U+0301; cases.Fold() maps 'A'..'Z' to
\* 'a'..'z'; runes.Remove drops the runes of its set
stageRune(stage, c) ==
    CASE stage = "NFD"      -> IF c = 233 THEN <<101, 769>> ELSE <<c>>
      [] stage = "Fold"     -> IF 65 <= c /\ c <= 90 THEN <<c + 32>> ELSE <<c>>
      [] stage = "RemoveMn" -> IF IsMn(c) THEN <<>> ELSE <<c>>
      [] stage = "RemoveP"  -> IF IsPunct(c) THEN <<>> ELSE <<c>>

\* transform.String on such a stage, from rune k of s on
RECURSIVE Stage(_, _, _)
Stage(stage, s, k) ==
    IF k > Len(s) THEN <<>>
    ELSE stageRune(stage, s[k]) \o Stage(stage, s, k + 1)

\* norm.NFC: 'e', U+0301 composes to U+00E9
RECURSIVE NFC(_, _)
NFC(s, k) ==
    IF k > Len(s) THEN <<>>
    ELSE IF k < Len(s) /\ s[k] = 101 /\ s[k + 1] = 769
    THEN <<233>> \o NFC(s, k + 2)
    ELSE <<s[k]>> \o NFC(s, k + 1)

\* transform.String on the chain
DefaultFold(s) ==
    LET ws == Transform(WsReset, Stage("Fold", Stage("NFD", s, 1), 1), 1,
                        <<>>).out
    IN  NFC(Stage("RemoveP", Stage("RemoveMn", ws, 1), 1), 1)

\* the runes of the strings folded: 'a', 'A', ' ', '.', e with acute
FoldAlphabet == {97, 65, 32, 46, 233}

InitPunct ==
    /\ IdxInit
    /\ DictInit
    /\ ScanInit
    /\ SDInit
    /\ ExtInit
    /\ WordInit
    /\ TfInit
    /\ IndexInit
    /\ PrefixInit
    /\ pIn \in SeqsUpTo(FoldAlphabet, MaxFoldLen)
    /\ pKey = <<>>
    /\ pKeyBare = <<>>
    /\ op = "init"

\* the key of a string and the key of the string without its punctuation
FoldPair ==
    /\ op = "init"
    /\ pKey' = DefaultFold(pIn)
    /\ pKeyBare' = DefaultFold(SelectSeq(pIn, LAMBDA c : ~IsPunct(c)))
    /\ op' = "Fold"
    /\ UNCHANGED pIn
    /\ UNCHANGED <<idxVars, dictVars, scanVars, sdVars, extVars, wordVars, tfVars>>
    /\ UNCHANGED <<indexVars, prefixVars>>

NextPunct == FoldPair

SpecPunct == InitPunct /\ [][NextPunct]_vars

(***************************************************************************)
(* Index.Search on an Index whose array is sorted byte-wise by key, with   *)
(* prefixCmp as its cmp.  An element carries its position in the array, so *)
(* that elements of equal key differ.                                      *)
(***************************************************************************)
\* the keys: every string of up to two of 'a', 'b'
IndexKeys == SeqsUpTo({97, 98}, 2)

\* the arrays: keys in non-decreasing byte order
SortedArrays ==
    { [i \in 1..Len(ks) |-> [folded |-> ks[i], pos |-> i]] :
        ks \in { s \in SeqsUpTo(IndexKeys, MaxKeys) :
                   \A i \in 1..(Len(s) - 1) : Compare(s[i], s[i + 1]) <= 0 } }

InitIndex ==
    /\ IdxInit
    /\ DictInit
    /\ ScanInit
    /\ SDInit
    /\ ExtInit
    /\ WordInit
    /\ TfInit
    /\ PunctInit
    /\ PrefixInit
    /\ xIndex \in SortedArrays
    /\ xQuery \in SeqsUpTo({97, 98}, 3) \ {<<>>}
    /\ xOut = <<>>
    /\ op = "init"

\* idx.Search(query)
IndexSearchCall ==
    /\ op = "init"
    /\ xOut' = IndexSearch(xIndex, xQuery)
    /\ op' = "IndexSearch"
    /\ UNCHANGED <<xIndex, xQuery>>
    /\ UNCHANGED <<idxVars, dictVars, scanVars, sdVars, extVars>>
    /\ UNCHANGED <<wordVars, tfVars, punctVars, prefixVars>>

NextIndex == IndexSearchCall

SpecIndex == InitIndex /\ [][NextIndex]_vars

(***************************************************************************)
(* Idx.Search on queries that hold code points above U+007F.  The Idx was  *)
(* built with transform.Nop from headwords with such code points: U+012A,  *)
(* whose low byte is that of '*', and U+013F, whose low byte is that of    *)
(* '?'.                                                                    *)
(***************************************************************************)
\* the headwords: "a", U+012A 'a', 'a' U+013F
WideHeadPool ==
    { [Word |-> <<97>>,      Offset |-> <<0, 0, 0, 0>>, Size |-> <<0, 3>>],
      [Word |-> <<298, 97>>, Offset |-> <<0, 0, 0, 3>>, Size |-> <<0, 6>>],
      [Word |-> <<97, 319>>, Offset |-> <<0, 0, 0, 9>>, Size |-> <<0, 2>>] }

\* the code points of the queries: 'a', '*', U+012A, U+013F
WideAlphabet == {97, 42, 298, 319}

InitPrefix ==
    /\ IdxInit
    /\ DictInit
    /\ ScanInit
    /\ SDInit
    /\ ExtInit
    /\ WordInit
    /\ TfInit
    /\ PunctInit
    /\ IndexInit
    /\ \E recs \in SeqsUpTo(WideHeadPool, MaxIdx) :
          qIdx = NewWithSynResult("nop", recs, <<>>).index
    /\ qQuery \in SeqsUpTo(WideAlphabet, MaxPrefixLen)
    /\ qPrefix = <<>>
    /\ qRes = [err |-> "none", hits |-> <<>>]
    /\ op = "init"

\* idx.Search(query)
PrefixSearch ==
    /\ op = "init"
    /\ qPrefix' = StaticPrefix(foldGlob("nop", qQuery))
    /\ qRes' = SearchResult(qIdx, "nop", qQuery)
    /\ op' = "PrefixSearch"
    /\ UNCHANGED <<qIdx, qQuery>>
    /\ UNCHANGED <<idxVars, dictVars, scanVars, sdVars, extVars>>
    /\ UNCHANGED <<wordVars, tfVars, punctVars, indexVars>>

NextPrefix == PrefixSearch

SpecPrefix == InitPrefix /\ [][NextPrefix]_vars

(***************************************************************************)
(* What the claims speak about.                                            *)
(***************************************************************************)
\* the merged list of folded words before sorting (the entries of the Idx)
Entries == mergeSyn(folder, synIn, 1, IdxWords(folder, idxIn)).words

\* the glob meta-characters, the characters the glob syntax reserves and
\* foldGlob keeps verbatim: * ? \ [ ] { }
MetaChars == {42, 63, 92, 91, 93, 123, 125}

HasMeta(s) == \E i \in 1..Len(s) : s[i] \in MetaChars

SeqToSet(s) == { s[i] : i \in 1..Len(s) }

NoDup(s) == \A i, j \in 1..Len(s) : s[i] = s[j] => i = j

\* The query folded as the specification words it: the maximal runs of
\* non-special bytes folded one by one, the runs of special bytes verbatim.
RunEnd(q, i) ==
    LET S == { j \in (i + 1)..Len(q) : SpecialByteOf(q[j]) # SpecialByteOf(q[i]) }
    IN  IF S = {} THEN Len(q) + 1 ELSE CHOOSE j \in S : \A m \in S : j <= m

RECURSIVE FoldRuns(_, _, _)
FoldRuns(f, q, i) ==
    IF i > Len(q) THEN <<>>
    ELSE LET j   == RunEnd(q, i)
             run == SubSeq(q, i, j - 1)
         IN  (IF SpecialByteOf(q[i]) THEN run ELSE Fold(f, run))
                 \o FoldRuns(f, q, j)

FoldedQuery == FoldRuns(folder, query, 1)

\* the maximal leading substring holding no meta-character
LeadingLiteral(s) ==
    LET S == { i \in 1..Len(s) : s[i] \in MetaChars }
    IN  IF S = {} THEN s
        ELSE SubSeq(s, 1, (CHOOSE i \in S : \A j \in S : i <= j) - 1)

\* C1: a Search whose folded query is non-empty and has no glob
\* meta-character returns, without error, exactly the entries whose folded
\* key equals the folded query: each of them once and no other entry.
C1_ExactLookup ==
    (op = "Search" /\ Fold(folder, query) # <<>> /\ ~HasMeta(Fold(folder, query))
        /\ built = "ok")
        => /\ err = "nil"
           /\ NoDup(hits)
           /\ SeqToSet(hits) =
                { e \in SeqToSet(Entries) : e.folded = Fold(folder, query) }

\* C2: a hit produced by the synonym record (w, j), j less than the number
\* of .idx records, is returned as the .idx record at 0-based position j of
\* the file.
C2_SynonymAliasing ==
    op = "Search" =>
        \A i \in 1..Len(hits) :
            (/\ hits[i].from.kind = "syn"
             /\ synIn[hits[i].from.pos + 1].OriginalWordIndex < Len(idxIn))
                => words[i] = idxIn[synIn[hits[i].from.pos + 1].OriginalWordIndex + 1]

\* a synonym of the second record of a two-record file was hit
C2_Witness ==
    /\ op = "Search"
    /\ Len(idxIn) = 2 /\ idxIn[1] # idxIn[2]
    /\ \E i \in 1..Len(hits) :
          /\ hits[i].from.kind = "syn"
          /\ synIn[hits[i].from.pos + 1].OriginalWordIndex = 1
          /\ words[i] = idxIn[2]

\* C3: every Word a Search returns is a record of the .idx stream, Word,
\* Offset and Size unchanged: the record the hit was built from, never the
\* folded key in place of the stored headword.
C3_OriginalWords ==
    op = "Search" =>
        /\ Len(words) = Len(hits)
        /\ \A i \in 1..Len(words) :
              /\ words[i] \in SeqToSet(idxIn)
              /\ hits[i].from.kind = "idx" => words[i] = idxIn[hits[i].from.pos + 1]

\* with case folding, a lower-case query returned a stored upper-case word
C3_Witness ==
    /\ op = "Search"
    /\ folder = "case"
    /\ query = <<97>>
    /\ \E i \in 1..Len(words) : words[i].Word = <<65>> /\ hits[i].folded = <<97>>

C5_ErrPrefix ==
    op = "Search" =>
        /\ (err = "ErrPrefix") <=>
              (/\ GlobCompile(FoldedQuery).ok
               /\ HasMeta(FoldedQuery)
               /\ LeadingLiteral(FoldedQuery) = <<>>)
        /\ ~HasMeta(FoldedQuery) => err = "nil"

\* C6: Search fails with ErrGlob, returning no words, whenever the folded
\* query is not a well-formed glob, also when it begins with a
\* meta-character.
C6_ErrGlob ==
    (op = "Search" /\ ~GlobCompile(FoldedQuery).ok)
        => err = "ErrGlob" /\ words = <<>>

\* a malformed query beginning with '[' failed with ErrGlob
C6_Witness ==
    /\ op = "Search"
    /\ query = <<91, 97, 98>>
    /\ err = "ErrGlob"
    /\ LeadingLiteral(FoldedQuery) = <<>>

\* C8: with an empty sametypesequence, the payload written block by block
\* (tag, data, NUL for a lower-case tag; tag, 4-byte big-endian length, data
\* for any other tag) is parsed back into the original (Type, Data) pairs.
C8_InlineRoundTrip ==
    op = "WordInline" => dOut = [status |-> "ok", data |-> dBlocks]

\* a string-like block and a file-like block holding a NUL were parsed back
C8_Witness ==
    /\ op = "WordInline"
    /\ dOut.status = "ok"
    /\ Len(dBlocks) = 2
    /\ StringLike(dBlocks[1].Type) /\ Len(dBlocks[1].Data) > 0
    /\ ~StringLike(dBlocks[2].Type) /\ 0 \in SeqToSet(dBlocks[2].Data)

\* C9: with a non-empty sametypesequence, the payload holding the declared
\* blocks without tag bytes is parsed into one block per declared tag equal
\* to the original; the Data of a string-like block excludes its NUL.
C9_SeqRoundTrip ==
    op = "WordSeq" => dOut = [status |-> "ok", data |-> dBlocks]

\* C10: when the stream ends in the middle of a record, the scanner yields
\* no entry for the partial bytes and Err() reports a truncated record.
C10_TruncatedRecord ==
    (sState \in {"done", "panic"} /\ sTail # <<>>)
        => /\ sState = "done"
           /\ sTokens = sRecs
           /\ sErr # "nil"

C12_SynIndexOutOfRange ==
    (built # "none" /\ \E k \in 1..Len(synIn) :
                          synIn[k].OriginalWordIndex >= Len(idxIn))
        => built = "err" /\ index = <<>>

\* C13: Search calls running concurrently on one Idx each return the words
\* and the error the same call returns when it runs alone, under every
\* interleaving.
C13_ConcurrentSearch ==
    \A c \in DOMAIN cPc :
        cPc[c] = "done" => cOut[c] = SearchResult(index, folder, cQuery[c])

\* C14: a Search made after any sequence of earlier Search calls on the
\* Idx returns the result and the error that the same query gets from an
\* Idx freshly built from the same records and options.
C14_SearchPure ==
    op = "SeqSearch" =>
        LET fresh == NewWithSynResult(folder, idxIn, synIn).index
            r     == SearchResult(fresh, folder, query)
        IN  /\ err = r.err
            /\ hits = r.hits

\* after a query that failed with ErrGlob and a query "a " that left the
\* transformer inside a span of white space, Search("b") finds "b"
C14_Witness ==
    /\ op = "SeqSearch"
    /\ Len(trace) = 3
    /\ trace[1].err = "ErrGlob"
    /\ trace[2].query = <<97, 32>>
    /\ query = <<98>>
    /\ fw = [notStart |-> TRUE, wsSpan |-> FALSE]
    /\ Len(words) = 1 /\ words[1].Word = <<98>>

\* C15: once Stardict.Close has returned, no file handle opened for the
\* dictionary is still open, whichever Open, Index, Dict and Search calls
\* came before it and whichever of them failed.
C15_CloseReleasesHandles ==
    op = "Close" => handles = [ifo |-> 0, idx |-> 0, dict |-> 0]

\* C17: Open of a version 3.0.0 .ifo whose idxoffsetbits is a number other
\* than 32 and 64 fails with ErrInvalidIdxOffset and returns no Stardict.
C17_InvalidIdxOffsetBits ==
    (/\ op = "Open"
     /\ fs.ext = ".ifo" /\ fs.ifoFile = "ok"
     /\ fs.ifo.version = "3.0.0"
     /\ ParseInt(fs.ifo.idxoffsetbits).ok
     /\ ParseInt(fs.ifo.idxoffsetbits).n \notin {32, 64})
        => fErr = "ErrInvalidIdxOffset" /\ sd.state = "failed"

\* C18: the offset width the .idx is scanned with is the idxoffsetbits of
\* the .ifo only when the version is 3.0.0; with version 2.4.2 the key is
\* ignored and the width is 32, and it is 32 when the key is absent.
C18_OffsetWidth ==
    LET i     == fs.ifo
        width == IF i.version = "3.0.0" /\ i.idxoffsetbits # <<>>
                 THEN ParseInt(i.idxoffsetbits).n ELSE 32
    IN  /\ sd.state \in {"open", "closed"} => sd.idxoffsetbits = width
        /\ (sd.state \in {"open", "closed"} /\ sd.idx = "set")
               => sd.idxWidth = width
        /\ (op = "Open" /\ fErr = "invalid idxoffsetbits")
               => i.version = "3.0.0"

\* a 2.4.2 dictionary whose .ifo says idxoffsetbits=64 was indexed with
\* 32-bit offsets
C18_Witness ==
    /\ op = "Index"
    /\ fs.ifo.version = "2.4.2"
    /\ fs.ifo.idxoffsetbits = <<54, 52>>
    /\ sd.idx = "set"
    /\ sd.idxWidth = 32

\* the entries OpenAll has to call Open on: the files named *.ifo or *.IFO
IsIfoFile(e) == ~e.isDir /\ e.file.ext \in {".ifo", ".IFO"}

\* C16: OpenAll calls Open on every file with extension .ifo or .IFO the
\* walk visits, whatever failed before it, and returns the dictionaries
\* that opened, in walk order, with one error per failure.
C16_OpenAll ==
    (wOut.status # "none") =>
        LET opens(e) == IsIfoFile(e) /\ Open(e.file).err = "nil"
            fails(e) == e.err \/ (IsIfoFile(e) /\ Open(e.file).err # "nil")
            good     == SelectSeq(wEntries, opens)
            bad      == SelectSeq(wEntries, fails)
        IN  /\ wOut.status = "returned"
            /\ wTried = { k \in 1..Len(wEntries) : IsIfoFile(wEntries[k]) }
            /\ wOut.dicts = [k \in 1..Len(good) |-> Open(good[k].file).s]
            /\ wOut.errs = [k \in 1..Len(bad) |->
                              IF bad[k].err THEN "walk"
                              ELSE Open(bad[k].file).err]

\* the lines after the magic line that are not blank, in order
IfoKeyLines ==
    SelectSeq(SubSeq(ifoIn, 2, Len(ifoIn)), LAMBDA l : TrimLeft(l) # <<>>)

\* the text before the first '=' of a line (the whole line when it has
\* none), right-trimmed, and the text after it, left-trimmed
KeyOf(line) == TrimRight(SplitN(line)[1])

ValueOf(line) == IF Len(SplitN(line)) = 2 THEN TrimLeft(SplitN(line)[2]) ELSE <<>>

\* the whole key matches [A-Za-z0-9_-]+
WholeKeyMatches(key) ==
    /\ Len(key) > 0
    /\ \A k \in 1..Len(key) :
          key[k] \in (97..122) \cup (65..90) \cup (48..57) \cup {45, 95}

\* every key of the lines is retrievable by Value, with the value of the
\* last line that sets it
IfoValuesKept ==
    \A n \in 1..Len(IfoKeyLines) :
        LET S    == { j \in 1..Len(IfoKeyLines) :
                        KeyOf(IfoKeyLines[j]) = KeyOf(IfoKeyLines[n]) }
            last == CHOOSE j \in S : \A m \in S : m <= j
        IN  Value(ifoOut, KeyOf(IfoKeyLines[n])) = ValueOf(IfoKeyLines[last])

ReadAsKeyLine(line) == Len(SplitN(line)) = 2 /\ keyRegexMatch(KeyOf(line))

C20_InvalidLine ==
    (op = "IfoNew" /\ \E n \in 1..Len(IfoKeyLines) :
                         \/ Len(SplitN(IfoKeyLines[n])) < 2
                         \/ ~WholeKeyMatches(KeyOf(IfoKeyLines[n])))
        => ifoOut.status \in {"errInvalidKey", "errNoVersion"}

\* C21: Dict.Word rejects an entry whose Offset exceeds 2^63-1 with the
\* word-offset-too-large error before any read is issued, never reports
\* that error for an Offset of at most 2^63-1, and never hands the reader a
\* negative offset.
C21_OffsetRange ==
    op = "Word" =>
        /\ wdE.Offset[1] >= 32768 =>
              wdOut.status = "errWordOffsetTooLarge" /\ wdOut.reads = <<>>
        /\ wdE.Offset[1] < 32768 => wdOut.status # "errWordOffsetTooLarge"
        /\ \A i \in 1..Len(wdOut.reads) : ~wdOut.reads[i].off.neg

\* Word was called with Offset 2^63 and failed without a read, and with
\* Offset 2^63-1 and issued its read
C21_Witness ==
    /\ op = "Word"
    /\ \/ /\ wdE.Offset = <<32768, 0, 0, 0>>
          /\ wdOut.status = "errWordOffsetTooLarge"
       \/ /\ wdE.Offset = <<32767, 65535, 65535, 65535>>
          /\ wdOut.status = "errRead"
          /\ Len(wdOut.reads) = 1

\* the bytes of a block lie within the payload
WithinPayload(d, b) ==
    \E i \in 0..Len(b) : \E j \in i..Len(b) : d = SubSeq(b, i + 1, j)

\* C30: for every entry and every payload the reader returns, Dict.Word
\* returns a Word or an error and never aborts with an out-of-range access;
\* the Data of every returned block lies within the payload.
C30_NoAbort ==
    op = "Word" =>
        /\ wdOut.status # "panic"
        /\ wdOut.status = "ok" =>
              \A k \in 1..Len(wdOut.data) :
                 WithinPayload(wdOut.data[k].Data,
                               ReadAtInt64(wdFile, Int64(wdE.Offset), wdE.Size).bytes)

\* C22: a dictionary whose sametypesequence value holds a byte outside the
\* 14 known tags is rejected by dict.New with the invalid-type error, each
\* byte of the value being one tag; a value of known tags only is accepted.
C22_InvalidType ==
    (op = "Dict" /\ fs.dict \in {"plain", "dz"}) =>
        LET v == fs.ifo.sametypesequence IN
        IF \E k \in 1..Len(v) : ~ValidType(v[k])
        THEN fErr = "errInvalidType"
        ELSE fErr = "nil"

\* the runes of a byte string, a stray byte read as U+FFFD
RECURSIVE Runes(_, _)
Runes(b, k) ==
    IF k > Len(b) THEN <<>>
    ELSE LET d == DecodeRune(b, k) IN <<d.c>> \o Runes(b, k + d.size)

\* the maximal runs of non-white-space runes of rs from position k on, in
\* order, each encoded, joined by one U+0020
RECURSIVE JoinFields(_, _, _)
JoinFields(rs, k, started) ==
    IF k > Len(rs) THEN <<>>
    ELSE IF IsSpace(rs[k]) THEN JoinFields(rs, k + 1, started)
    ELSE (IF started /\ IsSpace(rs[k - 1]) THEN <<32>> ELSE <<>>)
             \o EncodeRune(rs[k]) \o JoinFields(rs, k + 1, TRUE)

\* C23: given a whole input at end of stream and a dst that holds the
\* result, WhitespaceFolder writes the input's maximal runs of
\* non-white-space runes in order joined by exactly one U+0020: leading and
\* trailing white space (tab and U+3000 included) is dropped, every inner
\* run becomes one space, and a stray byte is written as U+FFFD and is not
\* white space.
C23_WhitespaceFold ==
    (tCalls = 1 /\ tLast.whole /\ tLast.atEOF
        /\ tLast.cap >= Len(JoinFields(Runes(tIn, 1), 1, FALSE)))
    => /\ tLast.err = "nil"
       /\ tPos = Len(tIn)
       /\ tOut = JoinFields(Runes(tIn, 1), 1, FALSE)

\* U+3000, "a", tab was folded to "a", and "a", " ", 0x80 to "a", " ", U+FFFD
C23_Witness ==
    /\ tCalls = 1 /\ tLast.whole /\ tLast.atEOF /\ tLast.err = "nil"
    /\ \/ tIn = <<227, 128, 128, 97, 9>> /\ tOut = <<97>>
       \/ tIn = <<97, 32, 128>> /\ tOut = <<97, 32, 239, 191, 189>>

\* C28: under any split of the input into source chunks and any dst sizes,
\* resuming from nSrc and concatenating the outputs gives the bytes of one
\* call with unlimited space: after every call, what has been written
\* followed by what the folder writes for the unconsumed bytes is that
\* result.
C28_Streaming ==
    tCalls > 0 =>
        tOut \o WsTransform(tW, 9 * MaxPieces, SubSeq(tIn, tPos + 1, Len(tIn)),
                            TRUE).out
            = WsTransform(WsReset, 9 * MaxPieces, tIn, TRUE).out

\* C24: under the default folding pipeline two strings that differ only by
\* punctuation code points fold to the same key, wherever the punctuation
\* stands in the string.
C24_PunctuationFold ==
    op = "Fold" => pKey = pKeyBare

\* C25: after idx.New or NewWithSyn, for records arriving in any order, the
\* index array is in non-decreasing byte-wise order of folded key.
C25_IndexSorted ==
    built = "ok" =>
        \A i \in 1..(Len(index) - 1) :
           Compare(index[i].folded, index[i + 1].folded) <= 0

\* C26: on an array sorted byte-wise by key and a non-empty prefix p,
\* Index.Search(p) returns exactly the elements whose key starts with p,
\* all of them, as one contiguous slice in stored order, and nothing when
\* no key starts with p.
C26_PrefixSearch ==
    op = "IndexSearch" =>
        LET M == { i \in 1..Len(xIndex) : HasPrefix(xIndex[i].folded, xQuery) }
        IN  IF M = {} THEN xOut = <<>>
            ELSE LET lo == CHOOSE i \in M : \A j \in M : i <= j
                     hi == CHOOSE i \in M : \A j \in M : j <= i
                 IN  /\ M = lo..hi
                     /\ xOut = SubSeq(xIndex, lo, hi)

\* Search("a") on the array "", "a", "ab", "b" returned "a", "ab"
C26_Witness ==
    /\ op = "IndexSearch"
    /\ xQuery = <<97>>
    /\ [i \in 1..Len(xIndex) |-> xIndex[i].folded]
          = << <<>>, <<97>>, <<97, 98>>, <<98>> >>
    /\ xOut = SubSeq(xIndex, 2, 3)

\* C27: entries whose folded keys are equal are all kept in the index, in
\* their input order (.idx file order, headwords before synonyms), and a
\* Search for that key returns them all in that order.
C27_EqualKeys ==
    built = "ok" =>
        /\ \A e \in SeqToSet(Entries) :
              SelectSeq(index, LAMBDA x : x.folded = e.folded)
                 = SelectSeq(Entries, LAMBDA x : x.folded = e.folded)
        /\ (op = "Search" /\ err = "nil" /\ ~HasMeta(Fold(folder, query))
               /\ Len(SelectSeq(Entries,
                               LAMBDA x : x.folded = Fold(folder, query))) > 1) =>
              SelectSeq(hits, LAMBDA x : x.folded = Fold(folder, query))
                 = SelectSeq(Entries, LAMBDA x : x.folded = Fold(folder, query))

\* C29: the static prefix Search selects the candidates with is the maximal
\* leading part of the folded query that holds no glob meta-character, for
\* every code point: one above U+007F is never taken for a meta-character.
C29_StaticPrefix ==
    op = "PrefixSearch" =>
        /\ qPrefix = LeadingLiteral(foldGlob("nop", qQuery))
        /\ qRes.err = "ErrPrefix" =>
              LeadingLiteral(foldGlob("nop", qQuery)) = <<>>

====
